---- MODULE Spec2Model ----
(***************************************************************************)
(* Corty TUI: event dispatch (AppEventSender, the input pump, the scroll   *)
(* debouncer, App::run) and the chat widget's processing state machine.    *)
(*                                                                         *)
(* SpecBus and SpecScroll model the input side: the input pump thread,     *)
(* ScrollEventHelper with its timer thread, both paths of                  *)
(* AppEventSender::send, the forwarding task and the receiving end of the  *)
(* main loop. Spec models the application: the input pump reading keys,    *)
(* the event handlers of App::run, the chat widget with its command popup, *)
(* the agent task and the shutdown sequence. LiveSpec is Spec with the     *)
(* fairness of the runtime's scheduling.                                   *)
(*                                                                         *)
(* SpecView models ChatHistoryState and ChatHistory on their own: the      *)
(* appends, the scroll operations and render with its line-count caches.   *)
(* SpecWidget models the chat widget on its own, with keys, pastes and the *)
(* core events handed to it directly. SpecPalette models CommandPopup on   *)
(* its own: the filter and the selection.                                  *)
(*                                                                         *)
(* SpecToaster models ToasterState on its own: toasts added, the tick and  *)
(* the clock. SpecLoop models App::run with what it paints: the redraws,   *)
(* the mouse-capture toggle, the ticker arm and the toasts. SpecShutdown   *)
(* models the ways out of App::run and the input pump's termination, under *)
(* the scheduling's fairness. SpecHeight models ChatHistoryBlock::height   *)
(* as a function of an entry and a width. SpecRedraw models the event arm  *)
(* of App::run with everything that sends it events (the input pump, the   *)
(* scroll debouncer, the send tasks, the forwarding task, the agent task)  *)
(* and with what each draw paints, under the scheduling's fairness.        *)
(***************************************************************************)
EXTENDS Integers, Sequences, FiniteSets, Bags, TLC

----------------------------------------------------------------------------
(* Bounds of the model.                                                    *)

\* Raw terminal events (keys, resizes, pastes) the input pump reads in one run.
MaxRaw == 2

\* Wheel ticks the input pump reads in one run.
MaxTicks == 4

\* Key events the input pump reads in one run of the application.
MaxKeys == 4

\* Capacity of the tokio channel. app.rs:47 creates it with channel(100); the
\* model scales it down so that the full queue is reached.
ChannelCapacity == 2

\* The text of a paste, as characters. "\n" is a newline inside pasted text.
PasteText == <<"a", "\n", "b">>

\* usize::MAX, the value of scroll_position that pins the view to the bottom
\* (chat_history.rs). The model's integers are 32 bits wide; the value is only
\* ever compared for equality before any arithmetic on scroll_position.
USIZE_MAX == 2147483647

----------------------------------------------------------------------------
VARIABLES
    \* AppEventSender / channels (event.rs)
    send_tasks,        \* bag of events held by tasks spawned by send(), not yet in the channel
    app_event_rx,      \* buffer of the tokio channel, read by App::run
    rx_alive,          \* the Receiver has not been dropped
    blocking_rx,       \* buffer of the std channel read by the forwarding task
    fwd_pc,            \* forwarding task: "recv", "send" (holds fwd_event), "exited"
    fwd_event,         \* the event the forwarding task holds, <<>> if none
    \* input pump (app.rs, spawn_blocking closure)
    pump_pc,           \* "check", "poll", "sched", "done"
    raw_count,         \* raw terminal events read so far
    shutdown_flag,
    \* ScrollEventHelper
    scroll_delta,
    timer_scheduled,
    timer_pc,          \* timer thread: "none", "sleep", "swapped", "clear"
    timer_threads,     \* timer threads spawned that have not yet cleared the flag
    accumulated,       \* the timer thread's local `accumulated`
    \* App::run (app.rs)
    loop_pc,           \* "loop", "exited", "restored", "flagged", "returned", "failed"
    restore_called,    \* tui::restore() has been invoked
    toasts,            \* ToasterState.toasts, oldest first (Spec keeps the kind of each
                       \* toast only, SpecToaster and SpecLoop the whole Toast)
    now,               \* the clock read by Instant::now(), in seconds since the start
    mouse_capture,     \* MouseCapture.is_active
    mouse_capture_active,  \* ChatWidget.mouse_capture_active (the displayed flag)
    frame,             \* the terminal: [draws |-> render passes so far,
                       \* shown |-> what the last pass painted]
    \* ChatWidget (widgets/chat.rs) and ChatHistoryState (widgets/chat_history.rs)
    textarea,          \* the input buffer, as characters ("\n" separates its lines)
    entries,           \* the history: "UserMessage", "AgentMessage", "AiWorking"
    cell_lines,        \* per entry, the display widths of the lines of its cell's view
    line_count,        \* per entry, Entry.line_count (rows at cached_width)
    ai_processing,
    ai_working_start,  \* TRUE for Some(instant)
    saved_textarea_content,  \* <<text>> for Some(lines), <<>> for None
    command_popup,     \* <<popup>> for Some(CommandPopup), <<>> for None
    active_command,    \* <<cmd>> for Some(SlashCommand), <<>> for None
    fullscreen_mode,   \* [app |-> App.fullscreen_mode, widget |-> ChatWidget.fullscreen_mode]
    scroll_position,   \* ChatHistoryState.scroll_position, USIZE_MAX when pinned to the bottom
    num_rendered_lines,
    last_viewport_height,
    cached_width,      \* ChatHistoryState.cached_width, 0 before the first render
    observed,          \* observation of the widget: the last operation (op, arg), the
                       \* scroll position (the selection, for an operation of the
                       \* palette) it started from, whether an entry was ever removed,
                       \* what the operation drew and recomputed
    agent_tasks,       \* agent tasks spawned by handle_core_event that still sleep
    \* history variables (observation only)
    received,          \* events dequeued by the main loop, in order
    sent,              \* [ctx |-> events handed to send() by the pump, noctx |-> by timer threads]
    bursts,            \* wheel ticks grouped by burst
    tick_opens,        \* the tick the pump is executing opened its burst
    overlap            \* a tick ran after a timer's window closed and before the timer finished

busVars == <<send_tasks, app_event_rx, rx_alive, blocking_rx, fwd_pc, fwd_event>>
pumpVars == <<pump_pc, raw_count, shutdown_flag>>
scrollVars == <<scroll_delta, timer_scheduled, timer_pc, timer_threads, accumulated>>
histVars == <<received, sent, bursts, tick_opens, overlap>>

screenVars == <<now, mouse_capture, mouse_capture_active, frame>>
loopVars == <<loop_pc, restore_called, toasts, screenVars>>
widgetVars == <<textarea, entries, cell_lines, line_count, ai_processing, ai_working_start,
                saved_textarea_content, command_popup, active_command, fullscreen_mode,
                scroll_position, num_rendered_lines, last_viewport_height, cached_width,
                observed>>
appVars == <<loopVars, widgetVars, agent_tasks>>

vars == <<busVars, pumpVars, scrollVars, appVars, histVars>>

----------------------------------------------------------------------------
(* AppEvent (event.rs)                                                     *)

AppEvent(type) == [type |-> type, key |-> "", delta |-> 0]
Key(k) == [type |-> "Key", key |-> k, delta |-> 0]
Scroll(d) == [type |-> "Scroll", key |-> "", delta |-> d]
Redraw == AppEvent("Redraw")
MouseCaptureChanged(is_active) ==
    [type |-> "MouseCaptureChanged", key |-> "", delta |-> 0, is_active |-> is_active]

\* Bag of the events of a sequence.
RECURSIVE SeqToBag(_)
SeqToBag(s) == IF s = <<>> THEN EmptyBag ELSE SetToBag({Head(s)}) (+) SeqToBag(Tail(s))

\* Mutant of send: the caller waits for room in the channel before its event is
\* handed over (as with blocking_send or an awaited send in the caller).
send_waits_for_room(has_runtime, events) ==
    /\ rx_alive
    /\ Len(app_event_rx) < ChannelCapacity
    /\ IF has_runtime
       THEN /\ send_tasks' = send_tasks (+) SeqToBag(events)
            /\ UNCHANGED blocking_rx
       ELSE /\ blocking_rx' = blocking_rx \o events
            /\ UNCHANGED send_tasks

\* AppEventSender::send for a sequence of events handed over by one caller without
\* a suspension point in between. With a runtime handle each event gets its own
\* spawned task (which completes tx.send(event).await whenever the scheduler runs
\* it); without one the events go to the std channel, whose send never blocks and
\* whose error (receiver gone) is ignored.
send(has_runtime, events) ==
    IF has_runtime
    THEN /\ send_tasks' = send_tasks (+) SeqToBag(events)
         /\ UNCHANGED blocking_rx
    ELSE /\ blocking_rx' = IF fwd_pc = "exited" THEN blocking_rx ELSE blocking_rx \o events
         /\ UNCHANGED send_tasks

\* A task spawned by send() completes tx.send(event).await: the event enters the
\* channel when there is room; if the receiver is gone the send fails and the
\* event is dropped. Tasks run in whatever order the scheduler picks.
RunSendTask(ev) ==
    /\ BagIn(ev, send_tasks)
    /\ send_tasks' = send_tasks (-) SetToBag({ev})
    /\ IF rx_alive
       THEN /\ Len(app_event_rx) < ChannelCapacity
            /\ app_event_rx' = Append(app_event_rx, ev)
       ELSE UNCHANGED app_event_rx
    /\ UNCHANGED <<rx_alive, blocking_rx, fwd_pc, fwd_event, pumpVars, scrollVars, appVars>>

\* Forwarding task: blocking_rx.recv()
ForwardRecv ==
    /\ fwd_pc = "recv"
    /\ blocking_rx # <<>>
    /\ fwd_event' = <<Head(blocking_rx)>>
    /\ blocking_rx' = Tail(blocking_rx)
    /\ fwd_pc' = "send"
    /\ UNCHANGED <<send_tasks, app_event_rx, rx_alive, pumpVars, scrollVars, appVars>>

\* Mutant of ForwardSend: try_send instead of send().await, so an event that finds
\* the channel full is dropped.
ForwardSend_try_send ==
    /\ fwd_pc = "send"
    /\ IF rx_alive
       THEN /\ app_event_rx' = IF Len(app_event_rx) < ChannelCapacity
                               THEN app_event_rx \o fwd_event
                               ELSE app_event_rx
            /\ fwd_pc' = "recv"
            /\ UNCHANGED blocking_rx
       ELSE /\ fwd_pc' = "exited"
            /\ blocking_rx' = <<>>
            /\ UNCHANGED app_event_rx
    /\ fwd_event' = <<>>
    /\ UNCHANGED <<send_tasks, rx_alive, pumpVars, scrollVars, appVars>>

\* Forwarding task: tx_clone.send(event).await, leaving the loop on an error.
ForwardSend ==
    /\ fwd_pc = "send"
    /\ IF rx_alive
       THEN /\ Len(app_event_rx) < ChannelCapacity
            /\ app_event_rx' = app_event_rx \o fwd_event
            /\ fwd_pc' = "recv"
            /\ UNCHANGED blocking_rx
       ELSE /\ fwd_pc' = "exited"
            /\ blocking_rx' = <<>>
            /\ UNCHANGED app_event_rx
    /\ fwd_event' = <<>>
    /\ UNCHANGED <<send_tasks, rx_alive, pumpVars, scrollVars, appVars>>

----------------------------------------------------------------------------
(* ScrollEventHelper (utils/scroll_event_helper.rs)                        *)

\* Mutant of TimerRead: the accumulator is read with load() and not reset.
TimerRead_load ==
    /\ accumulated' = scroll_delta
    /\ UNCHANGED scroll_delta

\* The timer thread's read of the accumulator: delta.swap(0).
TimerRead ==
    /\ accumulated' = scroll_delta
    /\ scroll_delta' = 0

\* Mutant of ScrollTick: the tick is stored over the accumulator.
ScrollTick_store(d) ==
    /\ pump_pc = "poll"
    /\ raw_count' = raw_count + 1
    /\ scroll_delta' = d
    /\ pump_pc' = "sched"
    /\ UNCHANGED <<shutdown_flag, timer_scheduled, timer_pc, timer_threads, accumulated,
                   busVars, appVars>>

\* scroll_up / scroll_down, first half: fetch_sub(1) / fetch_add(1).
ScrollTick(d) ==
    /\ pump_pc = "poll"
    /\ raw_count' = raw_count + 1
    /\ scroll_delta' = scroll_delta + d
    /\ pump_pc' = "sched"
    /\ UNCHANGED <<shutdown_flag, timer_scheduled, timer_pc, timer_threads, accumulated,
                   busVars, appVars>>

\* Mutant of ScheduleNotification: the flag is stored, not compared, and a
\* timer thread is spawned on every call.
ScheduleNotification_no_compare ==
    /\ pump_pc = "sched"
    /\ timer_scheduled' = TRUE
    /\ timer_pc' = "sleep"
    /\ timer_threads' = timer_threads + 1
    /\ pump_pc' = "check"
    /\ UNCHANGED <<raw_count, shutdown_flag, scroll_delta, accumulated, busVars, appVars>>

\* schedule_notification: compare_exchange(false, true); on success spawn the timer thread.
ScheduleNotification ==
    /\ pump_pc = "sched"
    /\ IF timer_scheduled
       THEN UNCHANGED <<timer_scheduled, timer_pc, timer_threads>>
       ELSE /\ timer_scheduled' = TRUE
            /\ timer_pc' = "sleep"
            /\ timer_threads' = timer_threads + 1
    /\ pump_pc' = "check"
    /\ UNCHANGED <<raw_count, shutdown_flag, scroll_delta, accumulated, busVars, appVars>>

\* Timer thread: the sleep of DEBOUNCE_WINDOW ends and the accumulator is swapped with 0.
TimerSwap ==
    /\ timer_pc = "sleep"
    /\ TimerRead
    /\ timer_pc' = "swapped"
    /\ UNCHANGED <<timer_scheduled, timer_threads, pumpVars, busVars, appVars>>

\* Timer thread: if accumulated != 0 { tx.send(Scroll(accumulated)) }. A thread made by
\* thread::spawn has no runtime handle.
TimerEmit ==
    /\ timer_pc = "swapped"
    /\ IF accumulated # 0
       THEN send(FALSE, <<Scroll(accumulated)>>)
       ELSE UNCHANGED <<send_tasks, blocking_rx>>
    /\ timer_pc' = "clear"
    /\ UNCHANGED <<scroll_delta, timer_scheduled, timer_threads, accumulated, pumpVars,
                   app_event_rx, rx_alive, fwd_pc, fwd_event, appVars>>

\* Timer thread: timer_flag.store(false); the thread ends.
TimerClear ==
    /\ timer_pc = "clear"
    /\ timer_scheduled' = FALSE
    /\ timer_pc' = "none"
    /\ timer_threads' = timer_threads - 1
    /\ UNCHANGED <<scroll_delta, accumulated, pumpVars, busVars, appVars>>

----------------------------------------------------------------------------
(* Input pump (app.rs, the spawn_blocking closure of App::new)             *)

\* Mutant of PasteKeys: a newline becomes a plain Enter.
PasteKeys_plain_enter(text) ==
    [i \in 1..Len(text) |->
        IF text[i] \in {"\n", "\r"} THEN Key("Enter") ELSE Key(text[i])]

\* Pasted text as key events: a newline becomes Shift+Enter.
PasteKeys(text) ==
    [i \in 1..Len(text) |->
        IF text[i] \in {"\n", "\r"} THEN Key("ShiftEnter") ELSE Key(text[i])]

\* while !shutdown_flag.load()
PumpCheck ==
    /\ pump_pc = "check"
    /\ pump_pc' = IF shutdown_flag THEN "done" ELSE "poll"
    /\ UNCHANGED <<raw_count, shutdown_flag, scrollVars, busVars, appVars>>

\* poll(100ms) times out (or read fails, or the event is one the pump ignores).
PumpPollTimeout ==
    /\ pump_pc = "poll"
    /\ pump_pc' = "check"
    /\ UNCHANGED <<raw_count, shutdown_flag, scrollVars, busVars, appVars>>

\* The pump reads a raw event that it translates into the events `events`. The
\* blocking task runs inside the runtime, so send() finds a handle.
PumpSend(events) ==
    /\ pump_pc = "poll"
    /\ raw_count' = raw_count + 1
    /\ send(TRUE, events)
    /\ pump_pc' = "check"
    /\ UNCHANGED <<shutdown_flag, scrollVars, app_event_rx, rx_alive, fwd_pc, fwd_event, appVars>>

\* Event::Key(key_event)
PumpKey(k) == PumpSend(<<Key(k)>>)
\* Event::Resize
PumpResize == PumpSend(<<Redraw>>)
\* Event::Paste(pasted)
PumpPaste(text) == PumpSend(PasteKeys(text))

----------------------------------------------------------------------------
(* The state after App::new (app.rs) and ChatWidget::new (chat.rs)         *)

\* The program's state after construction, the record of the last operation
\* apart.
InitProgram ==
    /\ send_tasks = EmptyBag
    /\ app_event_rx = <<>>
    /\ rx_alive = TRUE
    /\ blocking_rx = <<>>
    /\ fwd_pc = "recv"
    /\ fwd_event = <<>>
    /\ pump_pc = "check"
    /\ raw_count = 0
    /\ shutdown_flag = FALSE
    /\ scroll_delta = 0
    /\ timer_scheduled = FALSE
    /\ timer_pc = "none"
    /\ timer_threads = 0
    /\ accumulated = 0
    /\ loop_pc = "start"
    /\ restore_called = FALSE
    /\ toasts = <<>>
    /\ now = 0
    /\ mouse_capture = TRUE
    /\ mouse_capture_active = TRUE
    /\ frame = [draws |-> 0, shown |-> <<>>]
    /\ textarea = <<>>
    /\ entries = <<>>
    /\ cell_lines = <<>>
    /\ line_count = <<>>
    /\ ai_processing = FALSE
    /\ ai_working_start = FALSE
    /\ saved_textarea_content = <<>>
    /\ command_popup = <<>>
    /\ active_command = <<>>
    /\ fullscreen_mode = [app |-> FALSE, widget |-> FALSE]
    /\ scroll_position = USIZE_MAX
    /\ num_rendered_lines = 0
    /\ last_viewport_height = 0
    /\ cached_width = 0
    /\ agent_tasks = 0
    /\ received = <<>>
    /\ sent = [ctx |-> <<>>, noctx |-> <<>>]
    /\ bursts = <<>>
    /\ tick_opens = FALSE
    /\ overlap = FALSE

Init ==
    /\ InitProgram
    /\ observed = [op |-> "new", arg |-> 0, from |-> USIZE_MAX, removed |-> FALSE,
                   drawn |-> <<>>, recomputed |-> <<>>]

----------------------------------------------------------------------------
(* SpecBus: the input pump, the scroll debouncer and the event bus, with   *)
(* the main loop reduced to its receiving end. The history variables       *)
(* record what was handed to send() and what the main loop dequeued.       *)

\* The main loop takes the next event: self.app_event_rx.recv().
Recv ==
    /\ rx_alive
    /\ app_event_rx # <<>>
    /\ app_event_rx' = Tail(app_event_rx)
    /\ UNCHANGED <<send_tasks, rx_alive, blocking_rx, fwd_pc, fwd_event,
                   pumpVars, scrollVars, appVars>>

\* run_tui returns and drops the App, and with it the Receiver: the channel is
\* closed and what it buffers is discarded.
ReceiverDrop ==
    /\ rx_alive
    /\ rx_alive' = FALSE
    /\ app_event_rx' = <<>>
    /\ UNCHANGED <<send_tasks, blocking_rx, fwd_pc, fwd_event, pumpVars, scrollVars, appVars>>

\* Keys the pump reads as single key events in SpecBus.
BusKeys == {"x"}

SentCtx(events) == sent' = [sent EXCEPT !.ctx = @ \o events]

BusPumpCheck == PumpCheck /\ UNCHANGED histVars
BusPumpPollTimeout == PumpPollTimeout /\ UNCHANGED histVars
BusPumpKey ==
    \E k \in BusKeys :
        /\ raw_count < MaxRaw
        /\ PumpKey(k)
        /\ SentCtx(<<Key(k)>>)
        /\ UNCHANGED <<received, bursts, tick_opens, overlap>>
BusPumpResize ==
    /\ raw_count < MaxRaw
    /\ PumpResize
    /\ SentCtx(<<Redraw>>)
    /\ UNCHANGED <<received, bursts, tick_opens, overlap>>
BusPumpPaste ==
    /\ raw_count < MaxRaw
    /\ PumpPaste(PasteText)
    /\ SentCtx(PasteKeys(PasteText))
    /\ UNCHANGED <<received, bursts, tick_opens, overlap>>
\* A tick opens a burst when no timer is pending; otherwise it joins the burst of
\* the pending timer. A tick that runs after the timer has read the accumulator and
\* before the timer has finished is not inside any window.
BusScrollTick ==
    \E d \in {-1, 1} :
        /\ raw_count < MaxTicks
        /\ ScrollTick(d)
        /\ tick_opens' = (timer_pc = "none")
        /\ bursts' = IF timer_pc = "none" \/ bursts = <<>>
                     THEN Append(bursts, <<d>>)
                     ELSE [bursts EXCEPT ![Len(bursts)] = Append(@, d)]
        /\ overlap' = (overlap \/ timer_pc \in {"swapped", "clear"})
        /\ UNCHANGED <<received, sent>>
BusScheduleNotification ==
    /\ ScheduleNotification
    /\ overlap' = (overlap \/ timer_pc \in {"swapped", "clear"}
                           \/ (timer_pc = "none" /\ ~tick_opens))
    /\ tick_opens' = FALSE
    /\ UNCHANGED <<received, sent, bursts>>
BusTimerSwap == TimerSwap /\ UNCHANGED histVars
BusTimerEmit ==
    /\ TimerEmit
    /\ sent' = IF accumulated # 0
               THEN [sent EXCEPT !.noctx = Append(@, Scroll(accumulated))]
               ELSE sent
    /\ UNCHANGED <<received, bursts, tick_opens, overlap>>
BusTimerClear == TimerClear /\ UNCHANGED histVars
BusRunSendTask == \E ev \in BagToSet(send_tasks) : RunSendTask(ev) /\ UNCHANGED histVars
BusForwardRecv == ForwardRecv /\ UNCHANGED histVars
BusForwardSend == ForwardSend /\ UNCHANGED histVars
BusRecv ==
    /\ Recv
    /\ received' = Append(received, Head(app_event_rx))
    /\ UNCHANGED <<sent, bursts, tick_opens, overlap>>
BusReceiverDrop == ReceiverDrop /\ UNCHANGED histVars

NextBus ==
    \/ BusPumpCheck
    \/ BusPumpPollTimeout
    \/ BusPumpKey
    \/ BusPumpResize
    \/ BusPumpPaste
    \/ BusRunSendTask
    \/ BusRecv
    \/ BusReceiverDrop

SpecBus == Init /\ [][NextBus]_vars

----------------------------------------------------------------------------
(* SpecScroll: wheel ticks, ScrollEventHelper and its timer thread, the    *)
(* std channel, the forwarding task and the receiving end of the main loop.*)

NextScroll ==
    \/ BusPumpCheck
    \/ BusPumpPollTimeout
    \/ BusScrollTick
    \/ BusScheduleNotification
    \/ BusTimerSwap
    \/ BusTimerEmit
    \/ BusTimerClear
    \/ BusForwardRecv
    \/ BusForwardSend
    \/ BusRecv
    \/ BusReceiverDrop

SpecScroll == Init /\ [][NextScroll]_vars

----------------------------------------------------------------------------
(* Strings are sequences of one-character strings.                         *)

Min(a, b) == IF a < b THEN a ELSE b
Max(a, b) == IF a > b THEN a ELSE b
saturating_sub(a, b) == IF a > b THEN a - b ELSE 0

Whitespace == {" ", "\n", "\r", "\t"}

starts_with(s, prefix) == Len(prefix) <= Len(s) /\ SubSeq(s, 1, Len(prefix)) = prefix

\* str::strip_prefix: <<rest>> for Some(rest), <<>> for None.
strip_prefix(s, prefix) ==
    IF starts_with(s, prefix) THEN <<SubSeq(s, Len(prefix) + 1, Len(s))>> ELSE <<>>

\* Mutant of trim_is_empty: only the empty text counts as blank.
trim_is_empty_no_trim(s) == s = <<>>

\* s.trim().is_empty()
trim_is_empty(s) == \A i \in 1..Len(s) : s[i] \in Whitespace

RECURSIVE SkipWhitespace(_)
SkipWhitespace(s) ==
    IF s = <<>> \/ Head(s) \notin Whitespace THEN s ELSE SkipWhitespace(Tail(s))

RECURSIVE TakeWord(_)
TakeWord(s) ==
    IF s = <<>> \/ Head(s) \in Whitespace THEN <<>> ELSE <<Head(s)>> \o TakeWord(Tail(s))

\* s.split_whitespace().next().unwrap_or("")
first_word(s) == TakeWord(SkipWhitespace(s))

\* char::to_lowercase on the letters of the model's alphabet.
LowerChar(c) ==
    CASE c = "A" -> "a"
      [] c = "C" -> "c"
      [] c = "F" -> "f"
      [] OTHER -> c

to_lowercase(s) == [i \in 1..Len(s) |-> LowerChar(s[i])]

----------------------------------------------------------------------------
(* SlashCommand (slash_command.rs)                                         *)

COMMAND_PREFIX == <<"/">>

\* built_in_slash_commands(): the variants in declaration order.
built_in_slash_commands == <<"Clear", "AskAI", "Fullscreen">>

\* SlashCommand::command(): the kebab-case name of the variant.
command(cmd) ==
    CASE cmd = "Clear" -> <<"c", "l", "e", "a", "r">>
      [] cmd = "AskAI" -> <<"a", "s", "k", "-", "a", "i">>
      [] cmd = "Fullscreen" -> <<"f", "u", "l", "l", "s", "c", "r", "e", "e", "n">>

requires_input(cmd) == cmd = "AskAI"

\* format!("/{} ", cmd.command())
CommandLine(cmd) == COMMAND_PREFIX \o command(cmd) \o <<" ">>

----------------------------------------------------------------------------
(* CommandPopup (widgets/command_popup.rs). selected_index is <<i>> for    *)
(* Some(i), counted from 0 as in the source, and <<>> for None.            *)

CommandPopup_new ==
    [filtered_commands |-> built_in_slash_commands,
     selected_index |-> IF built_in_slash_commands = <<>> THEN <<>> ELSE <<0>>,
     filter |-> <<>>]

\* Mutant of apply_filter: the filter is compared as typed.
apply_filter_case_sensitive(popup) ==
    LET filtered ==
            IF popup.filter = <<>>
            THEN built_in_slash_commands
            ELSE SelectSeq(built_in_slash_commands,
                           LAMBDA cmd : starts_with(to_lowercase(command(cmd)), popup.filter))
        index == IF popup.selected_index = <<>> THEN 0 ELSE popup.selected_index[1]
    IN  [popup EXCEPT
            !.filtered_commands = filtered,
            !.selected_index = IF filtered = <<>>
                               THEN <<>>
                               ELSE <<Min(index, saturating_sub(Len(filtered), 1))>>]

apply_filter(popup) ==
    LET filtered ==
            IF popup.filter = <<>>
            THEN built_in_slash_commands
            ELSE SelectSeq(built_in_slash_commands,
                           LAMBDA cmd : starts_with(to_lowercase(command(cmd)),
                                                    to_lowercase(popup.filter)))
        index == IF popup.selected_index = <<>> THEN 0 ELSE popup.selected_index[1]
    IN  [popup EXCEPT
            !.filtered_commands = filtered,
            !.selected_index = IF filtered = <<>>
                               THEN <<>>
                               ELSE <<Min(index, saturating_sub(Len(filtered), 1))>>]

update_filter(popup, text) ==
    LET stripped == strip_prefix(text, COMMAND_PREFIX)
    IN  apply_filter([popup EXCEPT
            !.filter = IF stripped # <<>> THEN first_word(stripped[1]) ELSE <<>>])

\* Mutant of select_previous: the selection stops at the first command.
select_previous_stops_at_first(popup) ==
    IF popup.selected_index = <<>> THEN popup
    ELSE [popup EXCEPT !.selected_index = <<saturating_sub(@[1], 1)>>]

select_previous(popup) ==
    IF popup.selected_index = <<>> THEN popup
    ELSE IF popup.selected_index[1] > 0
    THEN [popup EXCEPT !.selected_index = <<@[1] - 1>>]
    ELSE [popup EXCEPT !.selected_index = <<saturating_sub(Len(popup.filtered_commands), 1)>>]

\* Mutant of select_next: the selection does not wrap around.
select_next_no_wrap(popup) ==
    IF popup.selected_index = <<>> THEN popup
    ELSE [popup EXCEPT !.selected_index = <<@[1] + 1>>]

select_next(popup) ==
    IF popup.selected_index = <<>> THEN popup
    ELSE IF popup.selected_index[1] < saturating_sub(Len(popup.filtered_commands), 1)
    THEN [popup EXCEPT !.selected_index = <<@[1] + 1>>]
    ELSE [popup EXCEPT !.selected_index = <<0>>]

\* <<cmd>> for Some(cmd), <<>> for None.
selected_command(popup) ==
    IF popup.selected_index # <<>> /\ popup.selected_index[1] < Len(popup.filtered_commands)
    THEN <<popup.filtered_commands[popup.selected_index[1] + 1]>>
    ELSE <<>>

has_commands(popup) == popup.filtered_commands # <<>>

----------------------------------------------------------------------------
(* ChatHistoryState and ChatHistory (widgets/chat_history.rs). The         *)
(* operators take and return the widget as a record `w`: the fields of     *)
(* ChatWidget and of its ChatHistoryState, the events the handler has sent *)
(* (`out`) and the number of agent tasks it has spawned (`spawned`).       *)

\* str::lines: the pieces between newlines, without a last empty piece.
RECURSIVE lines(_)
lines(text) ==
    IF text = <<>> THEN <<>>
    ELSE IF \E i \in 1..Len(text) : text[i] = "\n"
    THEN LET i == CHOOSE j \in 1..Len(text) :
                    text[j] = "\n" /\ \A h \in 1..(j - 1) : text[h] # "\n"
         IN  <<SubSeq(text, 1, i - 1)>> \o lines(SubSeq(text, i + 1, Len(text)))
    ELSE <<text>>

USER_MESSAGE_PREFIX == <<">", " ">>
AGENT_MESSAGE_PREFIX == <<"*", " ">>

\* The error response every completed request is answered with: ninety
\* characters on one line.
AI_ERROR_RESPONSE == [i \in 1..90 |-> "e"]

\* The view of a message block, as the display widths of its lines: the first
\* line behind the prefix, the others behind two spaces, then an empty line.
MessageLines(prefix, message) ==
    LET ls == lines(message)
    IN  [i \in 1..Len(ls) |-> IF i = 1 THEN Len(prefix) + Len(ls[i]) ELSE 2 + Len(ls[i])]
        \o <<0>>

new_user_message(message) ==
    [kind |-> "UserMessage", lines |-> MessageLines(USER_MESSAGE_PREFIX, message)]
new_agent_message(message) ==
    [kind |-> "AgentMessage", lines |-> MessageLines(AGENT_MESSAGE_PREFIX, message)]
new_ai_working == [kind |-> "AiWorking", lines |-> <<>>]

MAX_LINES_EXACT == 500
MAX_TOTAL_LINES == 5000
MAX_LINE_WRAP == 100
MAX_PROCESSED_LINES == 1000

div_ceil(a, b) == (a + b - 1) \div b

\* Rows of one line of a view at a width.
LineRows(line_width, width) ==
    IF line_width = 0 \/ line_width <= width THEN 1
    ELSE Min(div_ceil(line_width, width), MAX_LINE_WRAP)

\* usize::clamp.
clamp(n, lo, hi) == Min(Max(n, lo), hi)

\* The loop of ChatHistoryBlock::height over the lines at positions lo..hi,
\* entered with total_lines rows counted so far: either an iteration found
\* the running total above MAX_PROCESSED_LINES and returned, or the loop
\* went through the lines. The lines are taken in order, the first half of
\* the range before the second.
RECURSIVE HeightLoop(_, _, _, _, _)
HeightLoop(ls, lo, hi, width, total_lines) ==
    IF lo > hi THEN [returned |-> FALSE, total_lines |-> total_lines]
    ELSE IF lo = hi
    THEN LET total == total_lines + LineRows(ls[lo], width)
         IN  [returned |-> total > MAX_PROCESSED_LINES, total_lines |-> total]
    ELSE LET mid == (lo + hi) \div 2
             first == HeightLoop(ls, lo, mid, width, total_lines)
         IN  IF first.returned THEN first
             ELSE HeightLoop(ls, mid + 1, hi, width, first.total_lines)

\* The exact count of ChatHistoryBlock::height: the value of the early return
\* of the loop, or the clamped total after it.
HeightExact(ls, width) ==
    LET loop == HeightLoop(ls, 1, Len(ls), width, 0)
    IN  IF loop.returned THEN MAX_PROCESSED_LINES
        ELSE clamp(loop.total_lines, 1, 1000)

\* Mutant of height: the estimate for a long message is not capped.
height_uncapped_estimate(cell, width) ==
    IF cell.kind = "AiWorking" THEN 2
    ELSE IF width = 0 \/ Len(cell.lines) = 0 THEN 1
    ELSE IF Len(cell.lines) > MAX_LINES_EXACT
    THEN Len(cell.lines) * 2
    ELSE HeightExact(cell.lines, width)

\* ChatHistoryBlock::height.
height(cell, width) ==
    IF cell.kind = "AiWorking" THEN 2
    ELSE IF width = 0 \/ Len(cell.lines) = 0 THEN 1
    ELSE IF Len(cell.lines) > MAX_LINES_EXACT
    THEN Min(Len(cell.lines) * 2, MAX_TOTAL_LINES)
    ELSE HeightExact(cell.lines, width)

\* Mutant of add_to_history: the line count of the new entry is left at 0.
add_to_history_uncounted(w, cell) ==
    [w EXCEPT !.entries = Append(@, cell.kind),
              !.cell_lines = Append(@, cell.lines),
              !.line_count = Append(@, 0),
              !.scroll_position = USIZE_MAX]

\* Mutant of add_to_history: the scroll position is left where it was.
add_to_history_keeps_scroll(w, cell) ==
    LET width == w.cached_width
        count == IF width > 0 THEN height(cell, width) ELSE 0
    IN  [w EXCEPT !.entries = Append(@, cell.kind),
                  !.cell_lines = Append(@, cell.lines),
                  !.line_count = Append(@, count)]

add_to_history(w, cell) ==
    LET width == w.cached_width
        count == IF width > 0 THEN height(cell, width) ELSE 0
    IN  [w EXCEPT !.entries = Append(@, cell.kind),
                  !.cell_lines = Append(@, cell.lines),
                  !.line_count = Append(@, count),
                  !.scroll_position = USIZE_MAX]

add_user_message(w, message) == add_to_history(w, new_user_message(message))
add_agent_message(w, message) == add_to_history(w, new_agent_message(message))
add_ai_working(w) == add_to_history(w, new_ai_working)

\* Position of the first AiWorking entry, 0 if there is none.
FirstAiWorking(es) ==
    IF \E i \in 1..Len(es) : es[i] = "AiWorking"
    THEN CHOOSE i \in 1..Len(es) : es[i] = "AiWorking" /\ \A j \in 1..(i - 1) : es[j] # "AiWorking"
    ELSE 0

\* The subsequence of a sequence at the positions in `keep`, from position i on.
RECURSIVE Retain(_, _, _)
Retain(seq, i, keep) ==
    IF i > Len(seq) THEN <<>>
    ELSE (IF i \in keep THEN <<seq[i]>> ELSE <<>>) \o Retain(seq, i + 1, keep)

\* Mutant of remove_ai_working: only the first AiWorking entry is removed.
remove_ai_working_first(w) ==
    LET keep == {j \in 1..Len(w.entries) : j # FirstAiWorking(w.entries)}
    IN  [w EXCEPT !.entries = Retain(@, 1, keep),
                  !.cell_lines = Retain(@, 1, keep),
                  !.line_count = Retain(@, 1, keep)]

\* entries.retain(|entry| !matches!(entry.cell, AiWorking { .. }))
remove_ai_working(w) ==
    LET keep == {j \in 1..Len(w.entries) : w.entries[j] # "AiWorking"}
    IN  [w EXCEPT !.entries = Retain(@, 1, keep),
                  !.cell_lines = Retain(@, 1, keep),
                  !.line_count = Retain(@, 1, keep)]

\* ChatHistoryState::clear
history_clear(w) ==
    [w EXCEPT !.entries = <<>>,
              !.cell_lines = <<>>,
              !.line_count = <<>>,
              !.scroll_position = USIZE_MAX,
              !.num_rendered_lines = 0,
              !.last_viewport_height = 0]

\* Mutant of scroll_up: from the pinned state the offset is taken from the
\* total row count alone.
scroll_up_from_total(w, num_lines) ==
    LET from == IF w.scroll_position = USIZE_MAX
                THEN w.num_rendered_lines
                ELSE w.scroll_position
    IN  [w EXCEPT !.scroll_position = saturating_sub(from, num_lines)]

scroll_up(w, num_lines) ==
    LET from == IF w.scroll_position = USIZE_MAX
                THEN saturating_sub(w.num_rendered_lines, w.last_viewport_height)
                ELSE w.scroll_position
    IN  [w EXCEPT !.scroll_position = saturating_sub(from, num_lines)]

\* Mutant of scroll_down: the history is pinned only past the last offset.
scroll_down_past_end(w, num_lines) ==
    IF w.scroll_position = USIZE_MAX THEN w
    ELSE LET viewport_height == Max(w.last_viewport_height, 1)
             max_scroll == saturating_sub(w.num_rendered_lines, viewport_height)
             new_pos == w.scroll_position + num_lines
         IN  [w EXCEPT !.scroll_position = IF new_pos > max_scroll THEN USIZE_MAX ELSE new_pos]

scroll_down(w, num_lines) ==
    IF w.scroll_position = USIZE_MAX THEN w
    ELSE LET viewport_height == Max(w.last_viewport_height, 1)
             max_scroll == saturating_sub(w.num_rendered_lines, viewport_height)
             new_pos == w.scroll_position + num_lines
         IN  [w EXCEPT !.scroll_position = IF new_pos >= max_scroll THEN USIZE_MAX ELSE new_pos]

\* Mutant of scroll_page_up: a page is a single row.
scroll_page_up_one_row(w) ==
    LET viewport_height == Max(w.last_viewport_height, 1)
        from == IF w.scroll_position = USIZE_MAX
                THEN saturating_sub(w.num_rendered_lines, viewport_height)
                ELSE w.scroll_position
    IN  [w EXCEPT !.scroll_position = saturating_sub(from, 1)]

scroll_page_up(w) ==
    LET viewport_height == Max(w.last_viewport_height, 1)
        from == IF w.scroll_position = USIZE_MAX
                THEN saturating_sub(w.num_rendered_lines, viewport_height)
                ELSE w.scroll_position
    IN  [w EXCEPT !.scroll_position = saturating_sub(from, viewport_height)]

scroll_page_down(w) ==
    IF w.scroll_position = USIZE_MAX THEN w
    ELSE LET viewport_height == Max(w.last_viewport_height, 1)
             max_scroll == saturating_sub(w.num_rendered_lines, viewport_height)
             new_pos == w.scroll_position + viewport_height
         IN  [w EXCEPT !.scroll_position = IF new_pos >= max_scroll THEN USIZE_MAX ELSE new_pos]

\* Key codes ChatHistory::handle_key_event consumes, whatever the modifiers.
HistoryKeys == {"Up", "k", "Down", "j", "PageUp", "b", "PageDown", " "}

\* ChatHistory::handle_key_event, for a key it consumes.
history_handle_key_event(w, k) ==
    CASE k \in {"Up", "k"} -> scroll_up(w, 1)
      [] k \in {"Down", "j"} -> scroll_down(w, 1)
      [] k \in {"PageUp", "b"} -> scroll_page_up(w)
      [] k \in {"PageDown", " "} -> scroll_page_down(w)

\* ChatHistory::scroll
scroll(w, delta) ==
    IF delta < 0 THEN scroll_up(w, -delta)
    ELSE IF delta > 0 THEN scroll_down(w, delta)
    ELSE w

\* The caps of render, scaled down so that a history of a few entries reaches
\* them (in the source: 1000 entries, 10000 rows, 1000 entries).
MAX_ENTRIES_TO_PROCESS == 2
MAX_RENDERED_LINES == 5
CACHE_PROCESS_LIMIT == 2

\* Block::inner with Borders::ALL: one column and one row off each side.
inner(area) ==
    [width |-> saturating_sub(area.width, 2), height |-> saturating_sub(area.height, 2)]

\* The loop of render that recomputes the line counts after a width change,
\* from entry i on: [counts, num_lines, visited].
RECURSIVE RecomputeLineCounts(_, _, _, _, _, _)
RecomputeLineCounts(w, counts, i, max_entries, num_lines, effective_width) ==
    IF i > max_entries
    THEN [counts |-> counts, num_lines |-> num_lines, visited |-> <<>>]
    ELSE LET count == height([kind |-> w.entries[i], lines |-> w.cell_lines[i]],
                             effective_width)
             added == Min(num_lines + count, USIZE_MAX)
             set == [counts EXCEPT ![i] = count]
         IN  IF added > MAX_RENDERED_LINES
             THEN [counts |-> set, num_lines |-> added, visited |-> <<i>>]
             ELSE LET rest == RecomputeLineCounts(w, set, i + 1, max_entries, added,
                                                  effective_width)
                  IN  [rest EXCEPT !.visited = <<i>> \o @]

RECURSIVE SumSeq(_)
SumSeq(seq) == IF seq = <<>> THEN 0 ELSE Head(seq) + SumSeq(Tail(seq))

\* The loop of render that draws the visible entries, from entry i on: the rows
\* drawn from top to bottom, each as <<entry, row of the entry>> (rows from 0).
RECURSIVE RenderVisible(_, _, _, _)
RenderVisible(counts, i, lines_to_skip, remaining_height) ==
    IF i > Len(counts) THEN <<>>
    ELSE LET cell_height == counts[i]
         IN  IF lines_to_skip >= cell_height
             THEN RenderVisible(counts, i + 1, lines_to_skip - cell_height, remaining_height)
             ELSE LET visible_height == Min(cell_height - lines_to_skip, remaining_height)
                      rows == [r \in 1..visible_height |-> <<i, lines_to_skip + r - 1>>]
                  IN  IF visible_height = 0 THEN <<>>
                      ELSE IF remaining_height - visible_height = 0 THEN rows
                      ELSE rows \o RenderVisible(counts, i + 1, 0,
                                                 remaining_height - visible_height)

\* Mutant of ResolveScroll: an explicit offset is used as it is stored.
ResolveScroll_unclamped(stored, max_scroll) ==
    IF stored = USIZE_MAX THEN max_scroll ELSE stored

\* The offset render resolves the stored scroll position to.
ResolveScroll(stored, max_scroll) ==
    IF stored = USIZE_MAX THEN max_scroll ELSE Min(stored, max_scroll)

\* What render hands to the scrollbar: content length and position.
ScrollbarState(num_lines, viewport_height, scroll_pos) ==
    LET safe_content_length == Max(Max(num_lines, viewport_height), 1)
        safe_scroll_pos ==
            Min(scroll_pos, Max(saturating_sub(safe_content_length, viewport_height), 0))
    IN  [content_length |-> safe_content_length, position |-> safe_scroll_pos]

\* The values render computes before it draws: widths, line counts, total,
\* resolved offset and scrollbar state.
RenderLayout(w, area) ==
    LET effective_width == saturating_sub(inner(area).width, 1)
        viewport_height == inner(area).height
        recalculated == RecomputeLineCounts(w, w.line_count, 1,
                            Min(Len(w.entries), MAX_ENTRIES_TO_PROCESS), 0, effective_width)
        changed == w.cached_width # effective_width
        counts == IF changed THEN recalculated.counts ELSE w.line_count
        num_lines == IF changed
                     THEN Min(recalculated.num_lines, MAX_RENDERED_LINES)
                     ELSE Min(SumSeq(SubSeq(w.line_count, 1,
                                            Min(Len(w.line_count), CACHE_PROCESS_LIMIT))),
                              MAX_RENDERED_LINES)
        max_scroll == saturating_sub(num_lines, viewport_height)
        scroll_pos == ResolveScroll(w.scroll_position, max_scroll)
    IN  [effective_width |-> effective_width,
         viewport_height |-> viewport_height,
         counts |-> counts,
         num_lines |-> num_lines,
         recomputed |-> IF changed THEN recalculated.visited ELSE <<>>,
         scroll_pos |-> scroll_pos,
         drawn |-> num_lines # 0 /\ viewport_height # 0,
         scrollbar |-> ScrollbarState(num_lines, viewport_height, scroll_pos)]

\* What render leaves behind, given the values it computed: the caches of
\* the state, and in `buf` what the entry loop draws.
RenderWith(w, layout) ==
    IF layout.effective_width = 0 THEN w
    ELSE [w EXCEPT !.cached_width = layout.effective_width,
                   !.line_count = layout.counts,
                   !.num_rendered_lines = layout.num_lines,
                   !.last_viewport_height = layout.viewport_height,
                   !.recomputed = layout.recomputed,
                   !.buf = IF ~layout.drawn THEN <<>>
                           ELSE RenderVisible(layout.counts, 1, layout.scroll_pos,
                                              layout.viewport_height)]

\* ChatHistory::render. `buf` is what the entry loop draws, `recomputed` the
\* entries whose line count the call computed.
render(w, area) == RenderWith(w, RenderLayout(w, area))

----------------------------------------------------------------------------
(* ChatWidget (widgets/chat.rs)                                            *)

\* Key events: a character stands for the unmodified character key; the other
\* keys and chords are named.
Chars == {"a", "/", "c", "f", "k", "j", "b", " ", "x", "A", "C", "F", "-"}

\* TextArea::input with the cursor at the end of the text (no key of the model
\* moves the cursor): a character is appended, Enter with or without modifiers
\* starts a new line, Backspace deletes the last character.
textarea_input(text, k) ==
    CASE k \in Chars -> Append(text, k)
      [] k \in {"Enter", "ShiftEnter"} -> Append(text, "\n")
      [] k = "Backspace" -> SubSeq(text, 1, Len(text) - 1)
      [] OTHER -> text

request_redraw(w) == [w EXCEPT !.out = Append(@, Redraw)]

dispatch_event(w, type) == [w EXCEPT !.out = Append(@, AppEvent(type))]

\* select_all, cut, set_placeholder
clear_text_area(w) == [w EXCEPT !.textarea = <<>>]

update_command_popup(w) ==
    IF w.active_command # <<>> THEN w
    ELSE IF starts_with(w.textarea, COMMAND_PREFIX) /\ \A i \in 1..Len(w.textarea) : w.textarea[i] # " "
    THEN LET popup == update_filter(IF w.command_popup = <<>>
                                    THEN CommandPopup_new
                                    ELSE w.command_popup[1],
                                    w.textarea)
         IN  [w EXCEPT !.command_popup = IF has_commands(popup) THEN <<popup>> ELSE <<>>]
    ELSE [w EXCEPT !.command_popup = <<>>]

\* execute_slash_command(command, prompt): prompt is <<text>> for Some, <<>> for None.
execute_slash_command(w, cmd, prompt) ==
    CASE cmd = "Clear" -> request_redraw(history_clear(w))
      [] cmd = "AskAI" ->
            IF prompt # <<>> THEN dispatch_event(add_user_message(w, prompt[1]), "Core") ELSE w
      [] cmd = "Fullscreen" ->
            request_redraw([dispatch_event(w, "ToggleFullscreen")
                                EXCEPT !.fullscreen_mode = ~@])

\* Mutant of handle_scroll_event: single-row scrolls are magnified as well.
handle_scroll_event_always_magnifies(w, delta) ==
    request_redraw(scroll(w, delta * 2))

\* ChatWidget::handle_scroll_event. The delta is an i32; the deltas of the
\* model are far from the values at which scroll_delta * 2 leaves its range.
handle_scroll_event(w, delta) ==
    LET abs == IF delta < 0 THEN -delta ELSE delta
        magnified_delta == IF abs = 1 THEN delta ELSE delta * 2
    IN  request_redraw(scroll(w, magnified_delta))

handle_textarea_input(w, k) ==
    request_redraw(
        CASE k = "Esc" ->
                IF w.active_command # <<>>
                THEN request_redraw(clear_text_area([w EXCEPT !.active_command = <<>>]))
                ELSE w
          [] k = "Enter" ->
                IF w.active_command # <<>>
                THEN LET cmd == w.active_command[1]
                         stripped == strip_prefix(w.textarea, CommandLine(cmd))
                         prompt == IF stripped # <<>> THEN stripped[1] ELSE w.textarea
                         executed == IF ~trim_is_empty(prompt)
                                     THEN execute_slash_command(w, cmd, <<prompt>>)
                                     ELSE w
                     IN  [clear_text_area(executed) EXCEPT !.active_command = <<>>]
                ELSE IF ~trim_is_empty(w.textarea)
                THEN dispatch_event(clear_text_area(add_user_message(w, w.textarea)), "Core")
                ELSE w
          [] k = "CtrlN" -> [w EXCEPT !.textarea = Append(@, "\n")]
          [] OTHER -> update_command_popup([w EXCEPT !.textarea = textarea_input(@, k)]))

\* handle_command_popup_key_event: the popup is open.
handle_command_popup_key_event(w, k) ==
    LET popup == w.command_popup[1]
        selected == selected_command(popup)
    IN  CASE k = "Up" -> request_redraw([w EXCEPT !.command_popup = <<select_previous(popup)>>])
          [] k = "Down" -> request_redraw([w EXCEPT !.command_popup = <<select_next(popup)>>])
          [] k = "Tab" ->
                IF selected = <<>> THEN w
                ELSE LET cmd == selected[1]
                         typed == [w EXCEPT !.textarea = CommandLine(cmd)]
                     IN  request_redraw(
                            IF requires_input(cmd)
                            THEN [typed EXCEPT !.active_command = <<cmd>>, !.command_popup = <<>>]
                            ELSE update_command_popup(typed))
          [] k = "Enter" ->
                IF selected = <<>> THEN handle_textarea_input(w, k)
                ELSE LET cmd == selected[1]
                     IN  IF requires_input(cmd)
                         THEN request_redraw([w EXCEPT !.active_command = <<cmd>>,
                                                       !.textarea = CommandLine(cmd),
                                                       !.command_popup = <<>>])
                         ELSE request_redraw(
                                [clear_text_area(execute_slash_command(w, cmd, <<>>))
                                    EXCEPT !.command_popup = <<>>])
          [] k = "Esc" -> request_redraw([w EXCEPT !.command_popup = <<>>])
          [] OTHER ->
                request_redraw(update_command_popup([w EXCEPT !.textarea = textarea_input(@, k)]))

\* Mutant of handle_key_event: the history's keys are handled while the AI is
\* processing.
handle_key_event_scrolls_while_processing(w, k) ==
    IF w.ai_processing /\ k \notin HistoryKeys THEN w
    ELSE IF w.command_popup # <<>> THEN handle_command_popup_key_event(w, k)
    ELSE IF k \in HistoryKeys THEN request_redraw(history_handle_key_event(w, k))
    ELSE handle_textarea_input(w, k)

handle_key_event(w, k) ==
    IF w.ai_processing THEN w
    ELSE IF w.command_popup # <<>> THEN handle_command_popup_key_event(w, k)
    ELSE IF k \in HistoryKeys THEN request_redraw(history_handle_key_event(w, k))
    ELSE handle_textarea_input(w, k)

\* handle_core_event(AppEvent::CoreAI): the indicator is added, the text typed so
\* far is put aside and the agent task is spawned.
handle_core_event_CoreAI(w) ==
    LET working == [add_ai_working(w) EXCEPT !.ai_working_start = TRUE, !.ai_processing = TRUE]
        saved == IF working.textarea # <<>>
                 THEN clear_text_area([working EXCEPT
                                         !.saved_textarea_content = <<working.textarea>>])
                 ELSE working
    IN  [request_redraw(saved) EXCEPT !.spawned = @ + 1]

\* handle_core_event(AppEvent::AiProcessingComplete). The saved lines are typed
\* back with a newline after each and the last newline is deleted again.
handle_core_event_AiProcessingComplete(w) ==
    LET idle == [remove_ai_working(w) EXCEPT !.ai_working_start = FALSE, !.ai_processing = FALSE]
        restored == IF idle.saved_textarea_content # <<>>
                    THEN [idle EXCEPT
                            !.textarea = LET typed == @ \o idle.saved_textarea_content[1] \o <<"\n">>
                                         IN  SubSeq(typed, 1, Len(typed) - 1),
                            !.saved_textarea_content = <<>>]
                    ELSE idle
    IN  request_redraw(add_agent_message(restored, AI_ERROR_RESPONSE))

----------------------------------------------------------------------------
(* ToasterState (widgets/toaster.rs)                                       *)

MAX_TOASTS == 3

\* TOAST_DURATION, in seconds.
TOAST_DURATION == 5

\* Toast { message, kind, created_at: Instant::now() }
Toast(message, kind, created_at) ==
    [message |-> message, kind |-> kind, created_at |-> created_at]

\* Mutant of add_toast: at the limit the newest toast is dropped, not the oldest.
add_toast_drops_newest(ts, toast) ==
    LET pushed == Append(ts, toast)
    IN  IF Len(pushed) > MAX_TOASTS
        THEN SubSeq(pushed, 1, MAX_TOASTS)
        ELSE pushed

\* ToasterState::add_toast: push, then drain(0..len - MAX_TOASTS). `toast` is
\* the toast pushed (its kind alone in Spec).
add_toast(ts, toast) ==
    LET pushed == Append(ts, toast)
    IN  IF Len(pushed) > MAX_TOASTS
        THEN SubSeq(pushed, Len(pushed) - MAX_TOASTS + 1, Len(pushed))
        ELSE pushed

\* Mutant of toaster_tick: a toast lives one second longer.
toaster_tick_late(ts, at) ==
    SelectSeq(ts, LAMBDA toast : at - toast.created_at <= TOAST_DURATION)

\* ToasterState::tick at the instant `at`:
\* retain(|toast| now.duration_since(toast.created_at) < TOAST_DURATION)
toaster_tick(ts, at) ==
    SelectSeq(ts, LAMBDA toast : at - toast.created_at < TOAST_DURATION)

\* ToasterState::has_toasts
has_toasts(ts) == ts # <<>>

----------------------------------------------------------------------------
(* App::run (app.rs): the main loop and the shutdown sequence              *)

\* The chat widget as a record.
Widget ==
    [textarea |-> textarea,
     entries |-> entries,
     cell_lines |-> cell_lines,
     line_count |-> line_count,
     ai_processing |-> ai_processing,
     ai_working_start |-> ai_working_start,
     saved_textarea_content |-> saved_textarea_content,
     command_popup |-> command_popup,
     active_command |-> active_command,
     fullscreen_mode |-> fullscreen_mode.widget,
     scroll_position |-> scroll_position,
     num_rendered_lines |-> num_rendered_lines,
     last_viewport_height |-> last_viewport_height,
     cached_width |-> cached_width,
     observed |-> observed,
     buf |-> <<>>,
     recomputed |-> <<>>,
     spawned |-> 0,
     out |-> <<>>]

\* The widget after a handler: its fields, the agent tasks the handler spawned
\* and the events it sent (the main loop runs inside the runtime).
\* WidgetFieldsBecome is the first part, the fields.
WidgetFieldsBecome(w) ==
    /\ textarea' = w.textarea
    /\ entries' = w.entries
    /\ cell_lines' = w.cell_lines
    /\ line_count' = w.line_count
    /\ ai_processing' = w.ai_processing
    /\ ai_working_start' = w.ai_working_start
    /\ saved_textarea_content' = w.saved_textarea_content
    /\ command_popup' = w.command_popup
    /\ active_command' = w.active_command
    /\ fullscreen_mode' = [fullscreen_mode EXCEPT !.widget = w.fullscreen_mode]
    /\ scroll_position' = w.scroll_position
    /\ num_rendered_lines' = w.num_rendered_lines
    /\ last_viewport_height' = w.last_viewport_height
    /\ cached_width' = w.cached_width

WidgetBecomes(w) ==
    /\ WidgetFieldsBecome(w)
    /\ observed' = w.observed
    /\ agent_tasks' = agent_tasks + w.spawned
    /\ send(TRUE, w.out)

\* self.app_event_tx.send(AppEvent::Redraw) before the loop is entered.
RunStart ==
    /\ loop_pc = "start"
    /\ loop_pc' = "loop"
    /\ send(TRUE, <<Redraw>>)
    /\ UNCHANGED <<app_event_rx, rx_alive, fwd_pc, fwd_event, pumpVars, scrollVars,
                   restore_called, toasts, screenVars, widgetVars, agent_tasks, histVars>>

\* Some(event) = self.app_event_rx.recv() with an event of the given type.
Dequeue(type) ==
    /\ loop_pc = "loop"
    /\ rx_alive
    /\ app_event_rx # <<>>
    /\ Head(app_event_rx).type = type
    /\ app_event_rx' = Tail(app_event_rx)
    /\ UNCHANGED <<rx_alive, fwd_pc, fwd_event, pumpVars, scrollVars, histVars>>

\* AppEvent::Redraw, terminal.draw succeeds.
HandleRedraw ==
    /\ Dequeue("Redraw")
    /\ UNCHANGED <<send_tasks, blocking_rx, appVars>>

\* AppEvent::Redraw, terminal.draw fails: `?` returns the error from run.
HandleRedrawFails ==
    /\ Dequeue("Redraw")
    /\ loop_pc' = "failed"
    /\ UNCHANGED <<send_tasks, blocking_rx, restore_called, toasts, screenVars, widgetVars, agent_tasks>>

\* Mutant of HandleKeyCtrlD: the chord is handled like the other keys of the
\* widget, which ignores keys while the AI is processing.
HandleKeyCtrlD_blocked_while_processing ==
    /\ Dequeue("Key")
    /\ Head(app_event_rx).key = "CtrlD"
    /\ IF ai_processing
       THEN UNCHANGED <<send_tasks, blocking_rx>>
       ELSE send(TRUE, <<AppEvent("ExitRequest")>>)
    /\ UNCHANGED appVars

\* AppEvent::Key with Ctrl+D: the exit request is raised before any widget sees the key.
HandleKeyCtrlD ==
    /\ Dequeue("Key")
    /\ Head(app_event_rx).key = "CtrlD"
    /\ send(TRUE, <<AppEvent("ExitRequest")>>)
    /\ UNCHANGED appVars

\* AppEvent::Key with any other key than the reserved chords: dispatch_key_event.
HandleKeyDispatch ==
    /\ Dequeue("Key")
    /\ Head(app_event_rx).key \notin {"CtrlD", "CtrlY"}
    /\ WidgetBecomes(handle_key_event(Widget, Head(app_event_rx).key))
    /\ UNCHANGED loopVars

\* AppEvent::Core
HandleCore ==
    /\ Dequeue("Core")
    /\ send(TRUE, <<AppEvent("CoreAI")>>)
    /\ UNCHANGED appVars

\* AppEvent::CoreAI
HandleCoreAI ==
    /\ Dequeue("CoreAI")
    /\ WidgetBecomes(handle_core_event_CoreAI(Widget))
    /\ UNCHANGED loopVars

\* AppEvent::AiProcessingComplete
HandleAiProcessingComplete ==
    /\ Dequeue("AiProcessingComplete")
    /\ WidgetBecomes(handle_core_event_AiProcessingComplete(Widget))
    /\ UNCHANGED loopVars

\* AppEvent::ExitRequest => break
HandleExitRequest ==
    /\ Dequeue("ExitRequest")
    /\ loop_pc' = "exited"
    /\ UNCHANGED <<send_tasks, blocking_rx, restore_called, toasts, screenVars, widgetVars, agent_tasks>>

\* AppEvent::ToggleFullscreen
HandleToggleFullscreen ==
    /\ Dequeue("ToggleFullscreen")
    /\ fullscreen_mode' = [app |-> ~fullscreen_mode.app, widget |-> ~fullscreen_mode.app]
    /\ send(TRUE, <<Redraw>>)
    /\ UNCHANGED <<loopVars, textarea, entries, cell_lines, line_count, ai_processing,
                   ai_working_start, saved_textarea_content, command_popup, active_command,
                   scroll_position, num_rendered_lines, last_viewport_height, cached_width,
                   observed, agent_tasks>>

\* AppEvent::Error(message)
HandleError ==
    /\ Dequeue("Error")
    /\ toasts' = add_toast(toasts, "Error")
    /\ send(TRUE, <<Redraw>>)
    /\ UNCHANGED <<loop_pc, restore_called, screenVars, widgetVars, agent_tasks>>

\* Mutant of AgentTaskRun: the task reports the error and never signals completion.
AgentTaskRun_no_completion ==
    /\ agent_tasks > 0
    /\ agent_tasks' = agent_tasks - 1
    /\ send(TRUE, <<AppEvent("Error")>>)
    /\ UNCHANGED <<app_event_rx, rx_alive, fwd_pc, fwd_event, pumpVars, scrollVars,
                   loopVars, widgetVars, histVars>>

\* The agent task spawned by handle_core_event: its sleep ends, it sends the error
\* and then the completion.
AgentTaskRun ==
    /\ agent_tasks > 0
    /\ agent_tasks' = agent_tasks - 1
    /\ send(TRUE, <<AppEvent("Error"), AppEvent("AiProcessingComplete")>>)
    /\ UNCHANGED <<app_event_rx, rx_alive, fwd_pc, fwd_event, pumpVars, scrollVars,
                   loopVars, widgetVars, histVars>>

\* super::tui::restore()? after the loop, restoration succeeds.
Restore ==
    /\ loop_pc = "exited"
    /\ restore_called' = TRUE
    /\ loop_pc' = "restored"
    /\ UNCHANGED <<busVars, pumpVars, scrollVars, toasts, screenVars, widgetVars, agent_tasks,
                   histVars>>

\* super::tui::restore()? fails: run returns the error, the flag is never set.
RestoreFails ==
    /\ loop_pc = "exited"
    /\ restore_called' = TRUE
    /\ loop_pc' = "failed"
    /\ UNCHANGED <<busVars, pumpVars, scrollVars, toasts, screenVars, widgetVars, agent_tasks,
                   histVars>>

\* self.shutdown_flag.store(true)
SetShutdownFlag ==
    /\ loop_pc = "restored"
    /\ shutdown_flag' = TRUE
    /\ loop_pc' = "flagged"
    /\ UNCHANGED <<busVars, pump_pc, raw_count, scrollVars, restore_called, toasts, screenVars,
                   widgetVars, agent_tasks, histVars>>

\* task.await: the blocking task has left its loop.
Join ==
    /\ loop_pc = "flagged"
    /\ pump_pc = "done"
    /\ loop_pc' = "returned"
    /\ UNCHANGED <<busVars, pumpVars, scrollVars, restore_called, toasts, screenVars, widgetVars,
                   agent_tasks, histVars>>

\* run has returned to run_tui, which returns and drops the App with its Receiver.
AppDrop ==
    /\ loop_pc \in {"returned", "failed"}
    /\ ReceiverDrop
    /\ UNCHANGED histVars

----------------------------------------------------------------------------
(* Spec: the application                                                   *)

\* Keys the pump reads in Spec.
AppKeys == {"a", "/", "Enter", "CtrlD"}

AppPumpKey ==
    \E k \in AppKeys :
        /\ raw_count < MaxKeys
        /\ PumpKey(k)
        /\ UNCHANGED histVars

Next ==
    \/ RunStart
    \/ BusPumpCheck
    \/ BusPumpPollTimeout
    \/ AppPumpKey
    \/ BusRunSendTask
    \/ HandleRedraw
    \/ HandleRedrawFails
    \/ HandleKeyCtrlD
    \/ HandleKeyDispatch
    \/ HandleCore
    \/ HandleCoreAI
    \/ HandleAiProcessingComplete
    \/ HandleExitRequest
    \/ HandleError
    \/ AgentTaskRun
    \/ Restore
    \/ RestoreFails
    \/ SetShutdownFlag
    \/ Join
    \/ AppDrop

Spec == Init /\ [][Next]_vars

----------------------------------------------------------------------------
(* SpecView: ChatHistoryState on its own. The operations of the history    *)
(* (appends, removal of the indicator, clear, scroll keys, wheel scrolls)  *)
(* interleave freely with renders into areas of several sizes. `observed`  *)
(* records the last operation and its argument, whether an entry was ever  *)
(* removed, and what the operation drew and recomputed if it was a render. *)

MaxViewEntries == 3

\* Messages appended: one short line, and one line of twelve characters that
\* takes three rows at width 5 and five at width 3.
ViewMessages == {<<"a">>, [i \in 1..12 |-> "a"]}

\* Areas the history is rendered into: effective widths 0, 3 and 5, viewport
\* heights 0, 2 and 3.
ViewAreas ==
    {[width |-> 3, height |-> 4], [width |-> 6, height |-> 2], [width |-> 6, height |-> 4],
     [width |-> 8, height |-> 5]}

ViewScrollKeys == {"Up", "Down", "PageUp", "PageDown"}
ViewScrollDeltas == {-2, 2}
ViewScrollEventDeltas == {-2, -1, 0, 1, 2}

\* The history after an operation, and the observation of it.
Observed(w, op, arg) ==
    [op |-> op,
     arg |-> arg,
     from |-> scroll_position,
     removed |-> observed.removed \/ Len(w.entries) < Len(entries),
     drawn |-> w.buf,
     recomputed |-> w.recomputed]

HistoryBecomes(w, op, arg) ==
    /\ WidgetFieldsBecome(w)
    /\ observed' = Observed(w, op, arg)
    /\ UNCHANGED <<busVars, pumpVars, scrollVars, loopVars, agent_tasks, histVars>>

ViewAddUserMessage ==
    /\ Len(entries) < MaxViewEntries
    /\ \E message \in ViewMessages :
            HistoryBecomes(add_user_message(Widget, message), "add_to_history",
                           new_user_message(message))

ViewAddAiWorking ==
    /\ Len(entries) < MaxViewEntries
    /\ HistoryBecomes(add_ai_working(Widget), "add_to_history", new_ai_working)

ViewRemoveAiWorking == HistoryBecomes(remove_ai_working(Widget), "remove_ai_working", 0)

ViewClear == HistoryBecomes(history_clear(Widget), "clear", 0)

ViewKey ==
    \E k \in ViewScrollKeys : HistoryBecomes(history_handle_key_event(Widget, k), k, 0)

ViewScroll ==
    \E delta \in ViewScrollDeltas : HistoryBecomes(scroll(Widget, delta), "scroll", delta)

\* AppEvent::Scroll(delta) handled by the widget: dispatch_scroll_event.
ViewScrollEvent ==
    \E delta \in ViewScrollEventDeltas :
        HistoryBecomes(handle_scroll_event(Widget, delta), "scroll_event", delta)

ViewRender ==
    \E area \in ViewAreas : HistoryBecomes(render(Widget, area), "render", area)

NextView ==
    \/ ViewAddUserMessage
    \/ ViewAddAiWorking
    \/ ViewRemoveAiWorking
    \/ ViewClear
    \/ ViewKey
    \/ ViewScroll
    \/ ViewScrollEvent
    \/ ViewRender

SpecView == Init /\ [][NextView]_vars

----------------------------------------------------------------------------
(* SpecWidget: the chat widget on its own. Key events, typed or pasted, and *)
(* the events the widget's own requests come back as (Core, CoreAI,        *)
(* AiProcessingComplete, ToggleFullscreen) are handed to its handlers      *)
(* directly. send_tasks holds the events on their way back, app_event_rx   *)
(* the key events of a paste that are not handled yet, raw_count the key   *)
(* events produced so far. Redraw requests and Error notifications are     *)
(* left out: they do not reach the widget's handlers.                      *)

MaxWidgetKeys == 5

WidgetKeys == {"a", "/", "k", "Enter", "Esc", "Tab", "Down"}

PasteTexts == {<<"a", "\n">>, <<"\n", "/">>, <<"\r">>, <<"k">>}

\* The events among those a handler sent that come back to the widget.
ToWidget(events) ==
    SelectSeq(events,
              LAMBDA e : e.type \in {"Core", "CoreAI", "AiProcessingComplete", "ToggleFullscreen"})

\* The widget after a handler that took the events `taken` off send_tasks.
WidgetStep(w, taken, op, arg) ==
    /\ WidgetFieldsBecome(w)
    /\ observed' = Observed(w, op, arg)
    /\ agent_tasks' = agent_tasks + w.spawned
    /\ send_tasks' = (send_tasks (-) SeqToBag(taken)) (+) SeqToBag(ToWidget(w.out))
    /\ UNCHANGED <<rx_alive, blocking_rx, fwd_pc, fwd_event, pump_pc, shutdown_flag,
                   scrollVars, loopVars, histVars>>

\* A key is typed and handled: dispatch_key_event.
WidgetKey ==
    /\ raw_count < MaxWidgetKeys
    /\ raw_count' = raw_count + 1
    /\ \E k \in WidgetKeys : WidgetStep(handle_key_event(Widget, k), <<>>, "key", k)
    /\ UNCHANGED app_event_rx

\* Event::Paste: the pump turns the text into key events.
WidgetPaste ==
    /\ app_event_rx = <<>>
    /\ \E text \in PasteTexts :
            /\ raw_count + Len(text) <= MaxWidgetKeys
            /\ raw_count' = raw_count + Len(text)
            /\ app_event_rx' = PasteKeys(text)
            /\ observed' = Observed(Widget, "paste", text)
    /\ UNCHANGED <<send_tasks, rx_alive, blocking_rx, fwd_pc, fwd_event, pump_pc,
                   shutdown_flag, scrollVars, loopVars, agent_tasks, histVars,
                   textarea, entries, cell_lines, line_count, ai_processing,
                   ai_working_start, saved_textarea_content, command_popup, active_command,
                   fullscreen_mode, scroll_position, num_rendered_lines,
                   last_viewport_height, cached_width>>

\* A key event of a paste is handled. The events were sent one by one from the
\* pump, so they arrive in any order.
WidgetPastedKey ==
    \E i \in 1..Len(app_event_rx) :
        /\ app_event_rx' = SubSeq(app_event_rx, 1, i - 1)
                            \o SubSeq(app_event_rx, i + 1, Len(app_event_rx))
        /\ raw_count' = raw_count
        /\ WidgetStep(handle_key_event(Widget, app_event_rx[i].key), <<>>,
                      "pasted_key", app_event_rx[i].key)

\* AppEvent::Core comes back as CoreAI.
WidgetCore ==
    /\ BagIn(AppEvent("Core"), send_tasks)
    /\ WidgetStep([Widget EXCEPT !.out = <<AppEvent("CoreAI")>>], <<AppEvent("Core")>>,
                  "Core", "")
    /\ UNCHANGED <<raw_count, app_event_rx>>

WidgetCoreAI ==
    /\ BagIn(AppEvent("CoreAI"), send_tasks)
    /\ WidgetStep(handle_core_event_CoreAI(Widget), <<AppEvent("CoreAI")>>, "CoreAI", "")
    /\ UNCHANGED <<raw_count, app_event_rx>>

\* The agent task ends and sends the completion.
WidgetAgentTask ==
    /\ agent_tasks > 0
    /\ WidgetStep([Widget EXCEPT !.spawned = -1, !.out = <<AppEvent("AiProcessingComplete")>>],
                  <<>>, "agent_task", "")
    /\ UNCHANGED <<raw_count, app_event_rx>>

WidgetAiProcessingComplete ==
    /\ BagIn(AppEvent("AiProcessingComplete"), send_tasks)
    /\ WidgetStep(handle_core_event_AiProcessingComplete(Widget),
                  <<AppEvent("AiProcessingComplete")>>, "AiProcessingComplete", "")
    /\ UNCHANGED <<raw_count, app_event_rx>>

\* AppEvent::ToggleFullscreen: the application toggles its flag and passes it on
\* to the widget.
WidgetToggleFullscreen ==
    /\ BagIn(AppEvent("ToggleFullscreen"), send_tasks)
    /\ send_tasks' = send_tasks (-) SetToBag({AppEvent("ToggleFullscreen")})
    /\ fullscreen_mode' = [app |-> ~fullscreen_mode.app, widget |-> ~fullscreen_mode.app]
    /\ observed' = Observed(Widget, "ToggleFullscreen", "")
    /\ UNCHANGED <<loopVars, textarea, entries, cell_lines, line_count, ai_processing,
                   ai_working_start, saved_textarea_content, command_popup, active_command,
                   scroll_position, num_rendered_lines, last_viewport_height, cached_width,
                   agent_tasks, app_event_rx, rx_alive, blocking_rx, fwd_pc, fwd_event,
                   pumpVars, scrollVars, histVars>>

NextWidget ==
    \/ WidgetKey
    \/ WidgetPaste
    \/ WidgetPastedKey
    \/ WidgetCore
    \/ WidgetCoreAI
    \/ WidgetAgentTask
    \/ WidgetAiProcessingComplete
    \/ WidgetToggleFullscreen

SpecWidget == Init /\ [][NextWidget]_vars

----------------------------------------------------------------------------
(* SpecPalette: a CommandPopup on its own, under its four operations with  *)
(* every input text of up to MaxFilterLen characters, behind the command   *)
(* prefix or not.                                                          *)

MaxFilterLen == 2

FilterChars == {"c", "C", "l", "z", " "}

FilterTexts ==
    {prefix \o typed : prefix \in {<<>>, COMMAND_PREFIX},
                       typed \in UNION {[1..n -> FilterChars] : n \in 0..MaxFilterLen}}

\* The palette after an operation.
PaletteBecomes(popup, op, arg) ==
    /\ command_popup' = <<popup>>
    /\ observed' = [op |-> op,
                    arg |-> arg,
                    from |-> IF command_popup = <<>> THEN <<>>
                             ELSE command_popup[1].selected_index,
                    removed |-> FALSE,
                    drawn |-> <<>>,
                    recomputed |-> <<>>]
    /\ UNCHANGED <<busVars, pumpVars, scrollVars, loopVars, agent_tasks, histVars,
                   textarea, entries, cell_lines, line_count, ai_processing,
                   ai_working_start, saved_textarea_content, active_command,
                   fullscreen_mode, scroll_position, num_rendered_lines,
                   last_viewport_height, cached_width>>

PaletteNew == PaletteBecomes(CommandPopup_new, "new", <<>>)

PaletteUpdateFilter ==
    /\ command_popup # <<>>
    /\ \E text \in FilterTexts :
            PaletteBecomes(update_filter(command_popup[1], text), "update_filter", text)

PaletteSelectNext ==
    /\ command_popup # <<>>
    /\ PaletteBecomes(select_next(command_popup[1]), "select_next", <<>>)

PaletteSelectPrevious ==
    /\ command_popup # <<>>
    /\ PaletteBecomes(select_previous(command_popup[1]), "select_previous", <<>>)

NextPalette ==
    \/ PaletteNew
    \/ PaletteUpdateFilter
    \/ PaletteSelectNext
    \/ PaletteSelectPrevious

SpecPalette == Init /\ [][NextPalette]_vars

----------------------------------------------------------------------------
(* SpecToaster: a ToasterState on its own, under add_toast (through error   *)
(* and info) and tick, while the clock advances. ToasterState::clear is    *)
(* never called by the application and is left out.                        *)

\* Toasts added in one run.
MaxToasts == 4

\* The clock stops at this many seconds.
MaxTime == 6

\* The (message, kind) pairs added: ToasterState::error and ToasterState::info.
ToastInputs == {<<"m1", "Error">>, <<"m2", "Info">>}

\* Every toast added so far.
ToastsAdded == IF "added" \in DOMAIN observed THEN observed.added ELSE <<>>

\* The toaster after an operation. observed records the operation, the toasts
\* it started from and every toast added so far, in order.
ToasterBecomes(ts, op, added) ==
    /\ toasts' = ts
    /\ observed' = [op |-> op, from |-> toasts, added |-> added]
    /\ UNCHANGED <<busVars, pumpVars, scrollVars, histVars, loop_pc, restore_called,
                   mouse_capture, mouse_capture_active, frame, agent_tasks,
                   textarea, entries, cell_lines, line_count, ai_processing,
                   ai_working_start, saved_textarea_content, command_popup,
                   active_command, fullscreen_mode, scroll_position,
                   num_rendered_lines, last_viewport_height, cached_width>>

ToasterAddToast ==
    \E input \in ToastInputs :
        LET toast == Toast(input[1], input[2], now)
        IN  /\ Len(ToastsAdded) < MaxToasts
            /\ ToasterBecomes(add_toast(toasts, toast), "add_toast",
                              Append(ToastsAdded, toast))
            /\ UNCHANGED now

ToasterTick ==
    /\ ToasterBecomes(toaster_tick(toasts, now), "tick", ToastsAdded)
    /\ UNCHANGED now

\* A second passes.
ToasterTimePasses ==
    /\ now < MaxTime
    /\ now' = now + 1
    /\ observed' = [op |-> "time", from |-> toasts, added |-> ToastsAdded]
    /\ UNCHANGED <<busVars, pumpVars, scrollVars, histVars, loop_pc, restore_called,
                   toasts, mouse_capture, mouse_capture_active, frame, agent_tasks,
                   textarea, entries, cell_lines, line_count, ai_processing,
                   ai_working_start, saved_textarea_content, command_popup,
                   active_command, fullscreen_mode, scroll_position,
                   num_rendered_lines, last_viewport_height, cached_width>>

NextToaster ==
    \/ ToasterAddToast
    \/ ToasterTick
    \/ ToasterTimePasses

SpecToaster == Init /\ [][NextToaster]_vars

----------------------------------------------------------------------------
(* SpecLoop: the main loop of App::run with the reserved chords, the ticker *)
(* arm and the render pass. The pump reads keys, the clock advances; every *)
(* event the loop dequeues is recorded in `received`.                      *)

\* Key events the input pump reads in one run of SpecLoop.
MaxLoopKeys == 2

\* Calls of terminal.draw in one run of SpecLoop: the ticker stops asking for
\* redraws once this many are drawn or pending.
MaxDraws == 3

\* Keys the pump reads in SpecLoop.
LoopKeys == {"CtrlY", "a", "CtrlD"}

\* The size of the terminal (frame.area()).
TerminalArea == [width |-> 12, height |-> 30]

APP_PADDING == 1
WELCOME_WIDGET_HEIGHT == 17

ERROR_TOGGLE_MOUSE_MODE == "Failed to toggle mouse mode: {}"

\* Rect::inner(Margin): the area shrunk by the margin on every side.
inner_margin(area, margin) ==
    [width |-> Max(area.width - 2 * margin, 0), height |-> Max(area.height - 2 * margin, 0)]

\* The area of a vertical layout left below `used` rows.
Below(area, used) == [width |-> area.width, height |-> Max(area.height - used, 0)]

\* CommandPopup::calculate_height
calculate_height(popup) ==
    Max(1, Min(Len(popup.filtered_commands), 5)) + 2

\* Lines of the textarea: one more than the line breaks of its text.
textarea_lines(text) == 1 + Len(SelectSeq(text, LAMBDA ch : ch = "\n"))

\* ChatWidget::render_view: the input on top, the popup below it if there is one,
\* the history in what is left. Gives the widget after the render, `buf` being
\* the rows of the history that were drawn.
render_view(w, area) ==
    LET textarea_height == Max(textarea_lines(w.textarea) + 2, 3)
        popup_height == IF w.command_popup = <<>> THEN 0
                        ELSE calculate_height(w.command_popup[1])
    IN  render(w, Below(area, textarea_height + popup_height))

\* App::render: the area of the chat widget is the padded frame, below the
\* welcome widget unless the application is in fullscreen mode.
app_render(w, fullscreen, area) ==
    LET padded_area == inner_margin(area, APP_PADDING)
    IN  IF fullscreen THEN render_view(w, padded_area)
        ELSE render_view(w, Below(padded_area, WELCOME_WIDGET_HEIGHT))

\* What a render pass paints: the layout mode, the input, the popup, the rows of
\* the history and the scroll position they are drawn for, the capture flag
\* shown in the borders and the toasts on top.
Painted(w, fullscreen, shown_capture, ts) ==
    [fullscreen |-> fullscreen,
     textarea |-> w.textarea,
     command_popup |-> w.command_popup,
     entries |-> w.entries,
     history |-> w.buf,
     scroll_position |-> w.scroll_position,
     mouse_capture_active |-> shown_capture,
     toasts |-> ts]

\* Some(event) = self.app_event_rx.recv() with an event of the given type, the
\* event being recorded.
LoopDequeue(type) ==
    /\ loop_pc = "loop"
    /\ rx_alive
    /\ app_event_rx # <<>>
    /\ Head(app_event_rx).type = type
    /\ app_event_rx' = Tail(app_event_rx)
    /\ received' = Append(received, Head(app_event_rx))
    /\ UNCHANGED <<rx_alive, fwd_pc, fwd_event, pumpVars, scrollVars,
                   sent, bursts, tick_opens, overlap>>

LoopPumpKey ==
    \E k \in LoopKeys :
        /\ raw_count < MaxLoopKeys
        /\ PumpKey(k)
        /\ UNCHANGED histVars

\* Mutant of LoopRedraw: a frame equal to the one on the terminal is not drawn
\* again.
LoopRedraw_skips_unchanged ==
    /\ LoopDequeue("Redraw")
    /\ LET w == app_render(Widget, fullscreen_mode.app, TerminalArea)
           painted == Painted(w, fullscreen_mode.app, mouse_capture_active, toasts)
       IN  /\ WidgetFieldsBecome(w)
           /\ frame' = IF painted = frame.shown THEN frame
                       ELSE [draws |-> frame.draws + 1, shown |-> painted]
    /\ observed' = [op |-> "draw", ok |-> TRUE]
    /\ UNCHANGED <<send_tasks, blocking_rx, loop_pc, restore_called, toasts, now,
                   mouse_capture, mouse_capture_active, agent_tasks>>

\* AppEvent::Redraw, terminal.draw(|f| self.render(f)) succeeds: one render pass
\* over the state as it is now.
LoopRedraw ==
    /\ LoopDequeue("Redraw")
    /\ LET w == app_render(Widget, fullscreen_mode.app, TerminalArea)
       IN  /\ WidgetFieldsBecome(w)
           /\ frame' = [draws |-> frame.draws + 1,
                        shown |-> Painted(w, fullscreen_mode.app, mouse_capture_active,
                                          toasts)]
    /\ observed' = [op |-> "draw", ok |-> TRUE]
    /\ UNCHANGED <<send_tasks, blocking_rx, loop_pc, restore_called, toasts, now,
                   mouse_capture, mouse_capture_active, agent_tasks>>

\* AppEvent::Redraw, terminal.draw fails: `?` returns the error from run. The
\* closure may or may not have run before the failure.
LoopRedrawFails ==
    /\ LoopDequeue("Redraw")
    /\ loop_pc' = "failed"
    /\ \E ran \in BOOLEAN :
            WidgetFieldsBecome(IF ran THEN app_render(Widget, fullscreen_mode.app,
                                                      TerminalArea)
                               ELSE Widget)
    /\ frame' = [frame EXCEPT !.draws = frame.draws + 1]
    /\ observed' = [op |-> "draw", ok |-> FALSE]
    /\ UNCHANGED <<send_tasks, blocking_rx, restore_called, toasts, now,
                   mouse_capture, mouse_capture_active, agent_tasks>>

\* Mutant of LoopKeyCtrlY: the change is announced whether or not the toggle
\* succeeded.
LoopKeyCtrlY_always_announces ==
    /\ LoopDequeue("Key")
    /\ Head(app_event_rx).key = "CtrlY"
    /\ \E ok \in BOOLEAN :
            /\ mouse_capture' = IF ok THEN ~mouse_capture ELSE mouse_capture
            /\ toasts' = IF ok THEN toasts
                         ELSE add_toast(toasts, Toast(ERROR_TOGGLE_MOUSE_MODE, "Error", now))
            /\ send(TRUE, IF ok THEN <<MouseCaptureChanged(~mouse_capture)>>
                          ELSE <<Redraw, MouseCaptureChanged(~mouse_capture)>>)
            /\ observed' = [op |-> "toggle", ok |-> ok]
    /\ WidgetFieldsBecome(Widget)
    /\ UNCHANGED <<loop_pc, restore_called, now, mouse_capture_active, frame, agent_tasks>>

\* AppEvent::Key with Ctrl+Y: mouse_capture.toggle(). EnableMouseCapture or
\* DisableMouseCapture may fail, and then is_active keeps its value
\* (mouse_capture.rs:28-34, 58-64).
LoopKeyCtrlY ==
    /\ LoopDequeue("Key")
    /\ Head(app_event_rx).key = "CtrlY"
    /\ \E ok \in BOOLEAN :
            /\ mouse_capture' = IF ok THEN ~mouse_capture ELSE mouse_capture
            /\ toasts' = IF ok THEN toasts
                         ELSE add_toast(toasts, Toast(ERROR_TOGGLE_MOUSE_MODE, "Error", now))
            /\ send(TRUE, IF ok THEN <<MouseCaptureChanged(~mouse_capture)>>
                          ELSE <<Redraw>>)
            /\ observed' = [op |-> "toggle", ok |-> ok]
    /\ WidgetFieldsBecome(Widget)
    /\ UNCHANGED <<loop_pc, restore_called, now, mouse_capture_active, frame, agent_tasks>>

\* AppEvent::Key with Ctrl+D
LoopKeyCtrlD ==
    /\ LoopDequeue("Key")
    /\ Head(app_event_rx).key = "CtrlD"
    /\ send(TRUE, <<AppEvent("ExitRequest")>>)
    /\ observed' = [op |-> "exit_key", ok |-> TRUE]
    /\ WidgetFieldsBecome(Widget)
    /\ UNCHANGED <<loopVars, agent_tasks>>

\* AppEvent::Key with any other key: dispatch_key_event.
LoopKeyDispatch ==
    /\ LoopDequeue("Key")
    /\ Head(app_event_rx).key \notin {"CtrlD", "CtrlY"}
    /\ LET w == handle_key_event(Widget, Head(app_event_rx).key)
       IN  /\ WidgetFieldsBecome(w)
           /\ agent_tasks' = agent_tasks + w.spawned
           /\ send(TRUE, w.out)
    /\ observed' = [op |-> "key", ok |-> TRUE]
    /\ UNCHANGED loopVars

\* AppEvent::MouseCaptureChanged(is_active)
LoopMouseCaptureChanged ==
    /\ LoopDequeue("MouseCaptureChanged")
    /\ mouse_capture_active' = Head(app_event_rx).is_active
    /\ send(TRUE, <<Redraw>>)
    /\ observed' = [op |-> "capture_changed", ok |-> TRUE]
    /\ WidgetFieldsBecome(Widget)
    /\ UNCHANGED <<loop_pc, restore_called, toasts, now, mouse_capture, frame, agent_tasks>>

\* AppEvent::ExitRequest => break
LoopExitRequest ==
    /\ LoopDequeue("ExitRequest")
    /\ loop_pc' = "exited"
    /\ observed' = [op |-> "exit", ok |-> TRUE]
    /\ WidgetFieldsBecome(Widget)
    /\ UNCHANGED <<send_tasks, blocking_rx, restore_called, toasts, screenVars, agent_tasks>>

\* Redraw events on their way to the loop or waiting in its channel.
PendingRedraws ==
    CopiesIn(Redraw, send_tasks) + Len(SelectSeq(app_event_rx, LAMBDA ev : ev = Redraw))

\* _ = ticker.tick(): expired toasts are removed, the working animation is
\* updated, and a redraw is asked for if a toast is shown or the animation runs.
LoopTick ==
    /\ loop_pc = "loop"
    /\ frame.draws + PendingRedraws < MaxDraws
    /\ toasts' = toaster_tick(toasts, now)
    /\ LET needs_redraw == ai_working_start
       IN  IF has_toasts(toasts') \/ needs_redraw
           THEN send(TRUE, <<Redraw>>)
           ELSE UNCHANGED <<send_tasks, blocking_rx>>
    /\ observed' = [op |-> "tick", ok |-> TRUE]
    /\ WidgetFieldsBecome(Widget)
    /\ UNCHANGED <<app_event_rx, rx_alive, fwd_pc, fwd_event, pumpVars, scrollVars, histVars,
                   loop_pc, restore_called, screenVars, agent_tasks>>

\* Time passes: as long as a toast is displayed. The clock is read only for
\* the age of toasts, so it advances only while one is held.
LoopTimePasses ==
    /\ now < MaxTime
    /\ toasts # <<>>
    /\ now' = now + TOAST_DURATION
    /\ UNCHANGED <<busVars, pumpVars, scrollVars, histVars, loop_pc, restore_called,
                   toasts, mouse_capture, mouse_capture_active, frame, widgetVars,
                   agent_tasks>>

NextLoop ==
    \/ RunStart
    \/ BusPumpCheck
    \/ BusPumpPollTimeout
    \/ LoopPumpKey
    \/ BusRunSendTask
    \/ LoopRedraw
    \/ LoopRedrawFails
    \/ LoopKeyCtrlY
    \/ LoopKeyCtrlD
    \/ LoopKeyDispatch
    \/ LoopMouseCaptureChanged
    \/ LoopExitRequest
    \/ LoopTick
    \/ LoopTimePasses

SpecLoop == Init /\ [][NextLoop]_vars

----------------------------------------------------------------------------
(* SpecShutdown: the ways out of App::run, under the scheduling of a run   *)
(* that is left alone: the runtime runs the main task and the tasks spawned *)
(* by send, the calls after the loop return, and the pump's poll returns   *)
(* after its interval at the latest.                                       *)

\* Key events the input pump reads in one run of SpecShutdown.
MaxShutdownKeys == 2

\* Keys the pump reads in SpecShutdown.
ShutdownKeys == {"a", "CtrlD"}

ShutdownPumpKey ==
    \E k \in ShutdownKeys :
        /\ raw_count < MaxShutdownKeys
        /\ PumpKey(k)
        /\ UNCHANGED histVars

\* The input pump's step out of poll(100ms): a timeout or a key.
PumpPollReturns ==
    \/ BusPumpPollTimeout
    \/ ShutdownPumpKey

\* One turn of the select! loop in SpecShutdown.
ShutdownLoopStep ==
    \/ HandleRedraw
    \/ HandleRedrawFails
    \/ HandleKeyCtrlD
    \/ HandleKeyDispatch
    \/ HandleExitRequest

\* super::tui::restore()? returns, with Ok or with Err.
RestoreReturns ==
    \/ Restore
    \/ RestoreFails

NextShutdown ==
    \/ RunStart
    \/ BusPumpCheck
    \/ PumpPollReturns
    \/ BusRunSendTask
    \/ ShutdownLoopStep
    \/ RestoreReturns
    \/ SetShutdownFlag
    \/ Join
    \/ AppDrop

ShutdownFairness ==
    /\ WF_vars(RunStart)
    /\ WF_vars(BusPumpCheck)
    /\ WF_vars(PumpPollReturns)
    /\ WF_vars(BusRunSendTask)
    /\ WF_vars(ShutdownLoopStep)
    /\ WF_vars(RestoreReturns)
    /\ WF_vars(SetShutdownFlag)
    /\ WF_vars(Join)
    /\ WF_vars(AppDrop)

SpecShutdown == Init /\ [][NextShutdown]_vars /\ ShutdownFairness

----------------------------------------------------------------------------
(* SpecHeight: ChatHistoryBlock::height on its own. The initial states    *)
(* hold an entry and a width; the one step of a behaviour applies height   *)
(* to them and records the row count. The entries are messages of up to    *)
(* 2501 lines whose lines alternate between two display widths, and the    *)
(* working indicator.                                                      *)

HeightLineCounts == {0, 1, 2, 10, 11, 500, 501, 2500, 2501}
HeightLineWidths == {0, 3, 7, 400, 1000}
HeightWidths == {0, 1, 3, 10}

\* The display widths of the lines of a message of n lines.
HeightLines(n, odd, even) == [i \in 1..n |-> IF i % 2 = 1 THEN odd ELSE even]

HeightCells ==
    {new_ai_working} \cup
    {[kind |-> kind, lines |-> HeightLines(n, odd, even)] :
        kind \in {"UserMessage", "AgentMessage"},
        n \in HeightLineCounts, odd \in HeightLineWidths, even \in HeightLineWidths}

InitHeight ==
    /\ InitProgram
    /\ \E cell \in HeightCells, width \in HeightWidths :
            observed = [op |-> "input", kind |-> cell.kind, lines |-> cell.lines,
                        width |-> width, rows |-> 0]

HeightIs(kinds) ==
    /\ observed.op = "input"
    /\ observed.kind \in kinds
    /\ observed' = [observed EXCEPT
            !.op = "height",
            !.rows = height([kind |-> observed.kind, lines |-> observed.lines],
                            observed.width)]
    /\ UNCHANGED <<busVars, pumpVars, scrollVars, histVars, loopVars, agent_tasks,
                   textarea, entries, cell_lines, line_count, ai_processing,
                   ai_working_start, saved_textarea_content, command_popup,
                   active_command, fullscreen_mode, scroll_position,
                   num_rendered_lines, last_viewport_height, cached_width>>

HeightOfMessage == HeightIs({"UserMessage", "AgentMessage"})

HeightOfAiWorking == HeightIs({"AiWorking"})

NextHeight ==
    \/ HeightOfMessage
    \/ HeightOfAiWorking

SpecHeight == InitHeight /\ [][NextHeight]_vars

----------------------------------------------------------------------------
(* SpecRedraw: App::run with every arm of its match and the render pass,   *)
(* the agent task and the scroll debouncer, under the scheduling of the    *)
(* runtime. The pump reads a few keys and wheel ticks. The ticker arm is   *)
(* left out: the clock stands still, so a tick removes no toast, and the   *)
(* redraws it asks for are not relied on.                                  *)

\* Raw events (keys and wheel ticks) the input pump reads in one run of
\* SpecRedraw.
MaxRedrawKeys == 3

\* Keys the pump reads in SpecRedraw as its n-th raw event (n from 0): a text
\* is typed and submitted, the palette is opened, filtered and run, the capture
\* is toggled, the history is scrolled, the application is left.
RedrawKeys(n) ==
    CASE n = 0 -> {"a", "/", "CtrlY"}
      [] n = 1 -> {"Enter", "f", "CtrlD"}
      [] n = 2 -> {"Enter", "Up"}
      [] OTHER -> {"Up"}

RedrawPumpKey ==
    \E k \in RedrawKeys(raw_count) :
        /\ raw_count < MaxRedrawKeys
        /\ PumpKey(k)
        /\ UNCHANGED histVars

\* Event::Mouse(ScrollUp): scroll_event_helper.scroll_up(). The wheel is
\* turned before any key is pressed.
RedrawPumpWheel ==
    /\ raw_count = 0
    /\ ScrollTick(-1)
    /\ UNCHANGED histVars

RedrawScheduleNotification == ScheduleNotification /\ UNCHANGED histVars

\* The timer thread of the debouncer, from the end of its sleep to its end.
RedrawTimerThread ==
    /\ TimerSwap \/ TimerEmit \/ TimerClear
    /\ UNCHANGED histVars

\* The forwarding task of AppEventSender.
RedrawForward ==
    /\ ForwardRecv \/ ForwardSend
    /\ UNCHANGED histVars

\* AppEvent::Redraw, terminal.draw(|f| self.render(f)) succeeds: one render pass
\* over the state as it is now.
RedrawDraw ==
    /\ Dequeue("Redraw")
    /\ LET w == app_render(Widget, fullscreen_mode.app, TerminalArea)
       IN  /\ WidgetFieldsBecome(w)
           /\ frame' = [draws |-> frame.draws + 1,
                        shown |-> Painted(w, fullscreen_mode.app, mouse_capture_active,
                                          toasts)]
    /\ UNCHANGED <<send_tasks, blocking_rx, loop_pc, restore_called, toasts, now,
                   mouse_capture, mouse_capture_active, agent_tasks, observed>>

\* AppEvent::Key with Ctrl+Y: mouse_capture.toggle(), which may fail.
RedrawKeyCtrlY ==
    /\ Dequeue("Key")
    /\ Head(app_event_rx).key = "CtrlY"
    /\ \E ok \in BOOLEAN :
            /\ mouse_capture' = IF ok THEN ~mouse_capture ELSE mouse_capture
            /\ toasts' = IF ok THEN toasts ELSE add_toast(toasts, "Error")
            /\ send(TRUE, IF ok THEN <<MouseCaptureChanged(~mouse_capture)>>
                          ELSE <<Redraw>>)
    /\ UNCHANGED <<loop_pc, restore_called, now, mouse_capture_active, frame, widgetVars,
                   agent_tasks>>

\* AppEvent::Scroll(scroll_delta): dispatch_scroll_event.
RedrawScroll ==
    /\ Dequeue("Scroll")
    /\ LET w == handle_scroll_event(Widget, Head(app_event_rx).delta)
       IN  /\ WidgetFieldsBecome(w)
           /\ send(TRUE, w.out)
    /\ UNCHANGED <<loopVars, agent_tasks, observed>>

\* Mutant of RedrawMouseCaptureChanged: the flag is set without a request to
\* redraw.
RedrawMouseCaptureChanged_no_redraw ==
    /\ Dequeue("MouseCaptureChanged")
    /\ mouse_capture_active' = Head(app_event_rx).is_active
    /\ UNCHANGED <<send_tasks, blocking_rx, loop_pc, restore_called, toasts, now,
                   mouse_capture, frame, widgetVars, agent_tasks>>

\* AppEvent::MouseCaptureChanged(is_active)
RedrawMouseCaptureChanged ==
    /\ Dequeue("MouseCaptureChanged")
    /\ mouse_capture_active' = Head(app_event_rx).is_active
    /\ send(TRUE, <<Redraw>>)
    /\ UNCHANGED <<loop_pc, restore_called, toasts, now, mouse_capture, frame, widgetVars,
                   agent_tasks>>

\* One turn of the select! loop of App::run on an event of the channel.
RedrawLoopStep ==
    \/ RedrawDraw
    \/ HandleRedrawFails
    \/ RedrawKeyCtrlY
    \/ HandleKeyCtrlD
    \/ HandleKeyDispatch
    \/ RedrawScroll
    \/ HandleCore
    \/ HandleCoreAI
    \/ HandleAiProcessingComplete
    \/ HandleExitRequest
    \/ RedrawMouseCaptureChanged
    \/ HandleToggleFullscreen
    \/ HandleError

NextRedraw ==
    \/ RunStart
    \/ BusPumpCheck
    \/ BusPumpPollTimeout
    \/ RedrawPumpKey
    \/ RedrawPumpWheel
    \/ RedrawScheduleNotification
    \/ RedrawTimerThread
    \/ RedrawForward
    \/ BusRunSendTask
    \/ AgentTaskRun
    \/ RedrawLoopStep

\* A turn of the main task: run enters its loop, or its loop takes the event at
\* the head of the channel and handles it, which may end the loop. The turn is
\* written on the two variables every turn changes, and every event has an
\* arm in the match, so the main task can take a turn exactly when this is
\* enabled.
MainTaskTurn ==
    \/ /\ loop_pc = "start"
       /\ loop_pc' = "loop"
       /\ UNCHANGED app_event_rx
    \/ /\ loop_pc = "loop"
       /\ rx_alive
       /\ app_event_rx # <<>>
       /\ app_event_rx' = Tail(app_event_rx)
       /\ loop_pc' \in {"loop", "exited", "failed"}

\* The threads of the debouncer: the pump inside schedule_notification and the
\* timer thread.
RedrawDebouncer == RedrawScheduleNotification \/ RedrawTimerThread

\* The runtime runs every task that is ready: the main task, the tasks spawned
\* by send, the forwarding task and the agent task, whose sleep ends after two
\* seconds; the threads of the debouncer run on their own. Nothing is assumed
\* about the user's input.
RedrawFairness ==
    /\ WF_<<loop_pc, app_event_rx>>(MainTaskTurn)
    /\ WF_vars(BusRunSendTask)
    /\ WF_vars(AgentTaskRun)
    /\ WF_vars(RedrawForward)
    /\ WF_vars(RedrawDebouncer)

SpecRedraw == Init /\ [][NextRedraw]_vars /\ RedrawFairness

----------------------------------------------------------------------------
(* Claims about the event bus                                              *)

IsPrefix(s, t) == Len(s) <= Len(t) /\ SubSeq(t, 1, Len(s)) = s

\* C1 (as stated): events handed to send() by one producer that has a runtime
\* handle are dequeued by the main loop in the order they were handed over: what
\* the main loop has dequeued from the pump is a prefix of what the pump sent, so
\* the keys of a paste arrive in text order.
C1_FifoWithinProducer == IsPrefix(received, sent.ctx)

\* C3: send never blocks its caller, whatever the state of the channel (empty,
\* full, closed): whenever the pump is about to hand over events its step can be
\* taken; and nothing sent after the receiver is gone ever shows in the channel.
C3_SendNeverBlocks ==
    /\ pump_pc = "poll" =>
            /\ ENABLED PumpPaste(PasteText)
            /\ ENABLED PumpResize
            /\ \A k \in BusKeys : ENABLED PumpKey(k)
    /\ ~rx_alive => app_event_rx = <<>>

\* C3 witness: the channel is full, events sent earlier wait in spawned tasks
\* and the pump is about to send again.
C3_Witness ==
    /\ Len(app_event_rx) = ChannelCapacity
    /\ BagCardinality(send_tasks) > 0
    /\ pump_pc = "poll"
    /\ raw_count > 0

----------------------------------------------------------------------------
(* Claims about the scroll debouncer and the std-channel path              *)

\* C2: while the receiver is alive, every event sent from a thread without a
\* runtime handle is, exactly once and in send order, either already dequeued by
\* the main loop, in the channel, held by the forwarding task or in the std
\* channel: nothing is lost, duplicated or reordered on the way.
C2_RelayedExactlyOnceInOrder ==
    rx_alive => sent.noctx = received \o app_event_rx \o fwd_event \o blocking_rx

\* C2 witness: two different Scroll events have been sent by timer threads and the
\* main loop has dequeued both.
C2_Witness ==
    /\ rx_alive
    /\ Len(received) = 2
    /\ received = sent.noctx
    /\ received[1] # received[2]

RECURSIVE Sum(_)
Sum(s) == IF s = <<>> THEN 0 ELSE Head(s) + Sum(Tail(s))

\* The Scroll events that bursts of ticks should have produced: one per burst with
\* a nonzero signed sum, carrying that sum.
RECURSIVE ExpectedScrolls(_)
ExpectedScrolls(bs) ==
    IF bs = <<>> THEN <<>>
    ELSE IF Sum(Head(bs)) = 0 THEN ExpectedScrolls(Tail(bs))
    ELSE <<Scroll(Sum(Head(bs)))>> \o ExpectedScrolls(Tail(bs))

\* The bursts whose timer has already emitted (or skipped) its event.
EmittedBursts ==
    IF timer_pc \in {"sleep", "swapped"} \/ (pump_pc = "sched" /\ tick_opens)
    THEN SubSeq(bursts, 1, Len(bursts) - 1)
    ELSE bursts

\* C4: as long as every tick fell inside the window of its burst's timer, the
\* Scroll events emitted are exactly one per finished burst whose signed tick sum
\* is nonzero, each carrying that sum, and none for a burst whose sum is zero.
C4_OneScrollPerBurst ==
    ~overlap => sent.noctx = ExpectedScrolls(EmittedBursts)

\* C4 witness: the burst {+1,+1,-1,+1} has run to the end of its timer and has
\* produced the single event Scroll(+2).
C4_Witness ==
    /\ ~overlap
    /\ timer_pc = "none"
    /\ pump_pc # "sched"
    /\ bursts = << <<1, 1, -1, 1>> >>
    /\ sent.noctx = <<Scroll(2)>>

----------------------------------------------------------------------------
(* Claims about shutdown and exit                                          *)

\* C5 (as stated): when tui::restore() is invoked the shutdown flag has been set
\* and the input pump has left its loop, so the pump never polls or reads the
\* terminal once restoration has begun.
C5_PumpStoppedBeforeRestore ==
    restore_called => (shutdown_flag /\ pump_pc = "done")

\* The main loop takes an event of the given type from the channel in this step.
Dequeues(type) ==
    /\ loop_pc = "loop"
    /\ app_event_rx # <<>>
    /\ Head(app_event_rx).type = type
    /\ rx_alive'
    /\ app_event_rx' = Tail(app_event_rx)

\* C6: whatever the state of the widget, the step in which the main loop takes
\* the Ctrl+D key event raises ExitRequest and leaves the widget alone; the step
\* in which it takes ExitRequest ends the loop; and as long as the loop has not
\* ended, tui::restore() has not been called and the shutdown flag is not set.
C6_CtrlDExitsInEveryWidgetState ==
    /\ [][(Dequeues("Key") /\ Head(app_event_rx).key = "CtrlD") =>
            /\ send_tasks' = send_tasks (+) SetToBag({AppEvent("ExitRequest")})
            /\ UNCHANGED widgetVars]_vars
    /\ [][Dequeues("ExitRequest") => loop_pc' = "exited"]_vars
    /\ [](loop_pc \in {"start", "loop"} => (~restore_called /\ ~shutdown_flag))

\* C6 witness: the loop has ended on an ExitRequest raised while the AI was
\* processing, a command was being composed and the popup was open; nothing of
\* the shutdown sequence has run yet.
C6_Witness ==
    /\ loop_pc = "exited"
    /\ ai_processing
    /\ command_popup # <<>>
    /\ ~restore_called
    /\ ~shutdown_flag

----------------------------------------------------------------------------
(* Claims about the processing state of the chat widget                    *)

Count(es, kind) == Cardinality({i \in 1..Len(es) : es[i] = kind})

\* C7 (as stated): in every reachable state the history holds at most one
\* AiWorking entry.
C7_AtMostOneAiWorking == Count(entries, "AiWorking") <= 1

\* C8 (as stated): at most one agent task is under way: no agent task is spawned
\* while an earlier one has not yet sent its completion event.
C8_AtMostOneAgentTask == agent_tasks <= 1

\* C9: the step in which the main loop takes AiProcessingComplete leaves
\* ai_processing false, no AiWorking entry in the history and exactly one more
\* AgentMessage entry, appended at the end; the step in which it takes CoreAI
\* leaves ai_processing true and appends an AiWorking entry.
C9_CompletionAndStartHandlers ==
    /\ [][Dequeues("AiProcessingComplete") =>
            /\ ~ai_processing'
            /\ Count(entries', "AiWorking") = 0
            /\ entries' = Append(SelectSeq(entries, LAMBDA e : e # "AiWorking"), "AgentMessage")]_vars
    /\ [][Dequeues("CoreAI") =>
            /\ ai_processing'
            /\ entries' = Append(entries, "AiWorking")]_vars

\* C9 witness: a task was started and its completion handled: the history shows
\* the user's message and the agent's, no indicator, and processing is over.
C9_Witness ==
    /\ entries = <<"UserMessage", "AgentMessage">>
    /\ ~ai_processing
    /\ ~ai_working_start
    /\ agent_tasks = 0

----------------------------------------------------------------------------
(* LiveSpec: the application under the scheduling the runtime provides     *)

\* Key events the input pump reads in one run of LiveSpec.
MaxLiveKeys == 3

\* Keys the pump reads in LiveSpec: the user types a one-letter message and
\* submits it, again and again, and may press Ctrl+D instead of any of these keys.
LiveKeys(n) == {IF n % 2 = 0 THEN "a" ELSE "Enter", "CtrlD"}

LivePumpKey ==
    \E k \in LiveKeys(raw_count) :
        /\ raw_count < MaxLiveKeys
        /\ PumpKey(k)
        /\ UNCHANGED histVars

NextLive ==
    \/ RunStart
    \/ BusPumpCheck
    \/ BusPumpPollTimeout
    \/ LivePumpKey
    \/ BusRunSendTask
    \/ HandleRedraw
    \/ HandleRedrawFails
    \/ HandleKeyCtrlD
    \/ HandleKeyDispatch
    \/ HandleCore
    \/ HandleCoreAI
    \/ HandleAiProcessingComplete
    \/ HandleExitRequest
    \/ HandleError
    \/ AgentTaskRun
    \/ Restore
    \/ RestoreFails
    \/ SetShutdownFlag
    \/ Join
    \/ AppDrop

\* One turn of the select! loop of App::run: the event at the head of the channel
\* is taken and handled.
MainLoopStep ==
    \/ HandleRedraw
    \/ HandleRedrawFails
    \/ HandleKeyCtrlD
    \/ HandleKeyDispatch
    \/ HandleCore
    \/ HandleCoreAI
    \/ HandleAiProcessingComplete
    \/ HandleExitRequest
    \/ HandleError

\* The runtime runs every task that is ready: the main task (run), the tasks
\* spawned by send() and the agent tasks, whose sleep ends after two seconds.
\* Nothing is assumed about the user's keys or about the shutdown sequence.
Fairness ==
    /\ WF_vars(RunStart)
    /\ WF_vars(MainLoopStep)
    /\ WF_vars(BusRunSendTask)
    /\ WF_vars(AgentTaskRun)

LiveSpec == Init /\ [][NextLive]_vars /\ Fairness

----------------------------------------------------------------------------
(* Claims about progress of the processing state                           *)

Idle == ~ai_processing /\ Count(entries, "AiWorking") = 0

\* Every agent task that was started has completed: none sleeps and no completion
\* event is on its way to the main loop.
AllTasksCompleted ==
    /\ agent_tasks = 0
    /\ ~BagIn(AppEvent("AiProcessingComplete"), send_tasks)
    /\ \A i \in 1..Len(app_event_rx) : app_event_rx[i].type # "AiProcessingComplete"

\* C10 (as stated): every state with ai_processing true is eventually followed
\* by a state with ai_processing false and no AiWorking entry in the history, and
\* whenever all started tasks have completed ai_processing is false.
C10_NeverStuckWorking ==
    /\ ai_processing ~> Idle
    /\ [](AllTasksCompleted => ~ai_processing)

\* C10 (amended): as long as the main loop keeps running, every state with
\* ai_processing true is eventually followed by a state with ai_processing false
\* and no AiWorking entry in the history, or by the end of the main loop
\* (ExitRequest taken or a draw failed); and while the main loop runs,
\* ai_processing is false whenever all started tasks have completed.
C10_NeverStuckWorkingWhileLoopRuns ==
    /\ ai_processing ~> (Idle \/ loop_pc # "loop")
    /\ []((loop_pc = "loop" /\ AllTasksCompleted) => ~ai_processing)

\* C10 witness: a submission was started, its task has completed and the
\* completion has been handled; the main loop still runs and the widget is idle
\* again.
C10_Witness ==
    /\ loop_pc = "loop"
    /\ entries = <<"UserMessage", "AgentMessage">>
    /\ toasts # <<>>
    /\ AllTasksCompleted
    /\ Idle

----------------------------------------------------------------------------
(* Claims about the history viewport                                       *)

\* C11: whatever the scroll state before, a step that appends an entry leaves
\* the history pinned to the bottom, and it changes nothing else of the viewport
\* state: the cached total of rows, the cached viewport height and the cached
\* layout width are what they were.
C11_AppendPinsAndKeepsCaches ==
    [][observed'.op = "add_to_history" /\ Len(entries') = Len(entries) + 1 =>
            /\ scroll_position' = USIZE_MAX
            /\ num_rendered_lines' = num_rendered_lines
            /\ last_viewport_height' = last_viewport_height
            /\ cached_width' = cached_width]_vars

\* An entry was appended to a rendered history that was scrolled away from the
\* bottom, and the history is pinned again with its caches in place.
C11_Witness ==
    /\ observed.op = "add_to_history"
    /\ observed.from = 1
    /\ Len(entries) = 3
    /\ scroll_position = USIZE_MAX
    /\ num_rendered_lines = 4
    /\ last_viewport_height = 2
    /\ cached_width = 3

\* The number of rows a step of the history scrolls down by, 0 if it is not a
\* scroll-down or page-down step.
ScrollDownStep(obs, viewport_height) ==
    CASE obs.op = "Down" -> 1
      [] obs.op = "PageDown" -> Max(viewport_height, 1)
      [] obs.op = "scroll" /\ obs.arg > 0 -> obs.arg
      [] OTHER -> 0

ScrollOps == {"Up", "Down", "PageUp", "PageDown", "scroll"}

\* C12 as stated: a scroll-down or page-down step from an explicit offset ends
\* pinned exactly when offset + step >= total_rows - viewport_height and at
\* offset + step otherwise; and after a scroll operation the stored explicit
\* offset is never at or past total_rows - viewport_height.
C12_ScrollDownPinsAtBound ==
    /\ [][ScrollDownStep(observed', last_viewport_height) > 0 /\ scroll_position # USIZE_MAX =>
            LET reached == scroll_position + ScrollDownStep(observed', last_viewport_height)
            IN  scroll_position' =
                    IF reached >= num_rendered_lines - last_viewport_height
                    THEN USIZE_MAX ELSE reached]_vars
    /\ [](observed.op \in ScrollOps /\ scroll_position # USIZE_MAX =>
            scroll_position < num_rendered_lines - last_viewport_height)

\* C12, amended: the bound is max(0, total_rows - max(viewport_height, 1)), and
\* it is after a scroll-down or page-down step that the stored explicit offset
\* is below it.
C12_ScrollDownPinsAtClampedBound ==
    /\ [][ScrollDownStep(observed', last_viewport_height) > 0 /\ scroll_position # USIZE_MAX =>
            LET reached == scroll_position + ScrollDownStep(observed', last_viewport_height)
                bound == saturating_sub(num_rendered_lines, Max(last_viewport_height, 1))
            IN  scroll_position' = IF reached >= bound THEN USIZE_MAX ELSE reached]_vars
    /\ [](ScrollDownStep(observed, last_viewport_height) > 0 /\ scroll_position # USIZE_MAX =>
            scroll_position < saturating_sub(num_rendered_lines, Max(last_viewport_height, 1)))

\* A one-row scroll down from an explicit offset reached the bound exactly and
\* pinned the history.
C12_Witness ==
    /\ observed.op = "Down"
    /\ observed.from # USIZE_MAX
    /\ last_viewport_height > 0
    /\ observed.from + 1 = num_rendered_lines - last_viewport_height
    /\ scroll_position = USIZE_MAX

\* The effective width render lays the history out at in an area.
EffectiveWidth(area) == saturating_sub(inner(area).width, 1)

\* The rows of entry i at a width, computed from its cell.
RowsAt(i, width) == height([kind |-> entries[i], lines |-> cell_lines[i]], width)

\* The rows of the first n entries at a width, each computed from its cell.
RowsOfFirst(n, width) == SumSeq([i \in 1..n |-> RowsAt(i, width)])

\* A step that renders at a width above 0 a history that has only been
\* appended to.
RendersAppended ==
    /\ observed'.op = "render"
    /\ EffectiveWidth(observed'.arg) > 0
    /\ ~observed'.removed

\* C13 as stated: whatever appends and renders came before, the total of rows a
\* render at width W uses and caches is the sum over all entries of the rows of
\* the entry computed at W.
C13_CachedTotalIsExactTotal ==
    [][RendersAppended =>
            num_rendered_lines' = RowsOfFirst(Len(entries), EffectiveWidth(observed'.arg))]_vars

\* C13, amended: the total is that sum over the first MAX_ENTRIES_TO_PROCESS
\* entries, capped at MAX_RENDERED_LINES.
C13_CachedTotalIsCappedTotal ==
    [][RendersAppended =>
            num_rendered_lines' =
                Min(RowsOfFirst(Min(Len(entries), MAX_ENTRIES_TO_PROCESS),
                                EffectiveWidth(observed'.arg)),
                    MAX_RENDERED_LINES)]_vars

\* A render at the cached width used counts cached by a render and by a later
\* append, and their total is below the caps.
C13_Witness ==
    /\ observed.op = "render"
    /\ ~observed.removed
    /\ observed.recomputed = <<>>
    /\ Len(entries) = 2
    /\ cached_width = 5
    /\ line_count = <<2, 2>>
    /\ num_rendered_lines = 4

\* C14 as stated: a render at a width W other than the cached width leaves every
\* entry's cached line count at the entry's rows at W and the cached width at W,
\* having computed each entry once; a render at the cached width computes none.
C14_WidthChangeRecomputesEveryEntry ==
    [][observed'.op = "render" /\ EffectiveWidth(observed'.arg) > 0 =>
            LET W == EffectiveWidth(observed'.arg)
            IN  IF W # cached_width
                THEN /\ cached_width' = W
                     /\ \A i \in 1..Len(entries) : line_count'[i] = RowsAt(i, W)
                     /\ observed'.recomputed = [i \in 1..Len(entries) |-> i]
                ELSE observed'.recomputed = <<>>]_vars

\* The bottom row a render drew, <<0, 0>> if it drew none.
BottomRowDrawn(obs) == IF obs.drawn = <<>> THEN <<0, 0>> ELSE obs.drawn[Len(obs.drawn)]

\* C15 as stated: a render of a pinned history with more rows than the viewport
\* draws the last row of the last entry as its bottom row, whatever the size of
\* the history and however many entries were appended since the render before.
C15_PinnedRenderShowsNewest ==
    [][/\ observed'.op = "render"
       /\ EffectiveWidth(observed'.arg) > 0
       /\ inner(observed'.arg).height > 0
       /\ scroll_position = USIZE_MAX
       /\ RowsOfFirst(Len(entries), EffectiveWidth(observed'.arg)) > inner(observed'.arg).height
       => BottomRowDrawn(observed') =
            <<Len(entries), RowsAt(Len(entries), EffectiveWidth(observed'.arg)) - 1>>]_vars

----------------------------------------------------------------------------
(* Claims about the chat widget's key handling                             *)

\* A step that handles a key event, typed or pasted.
HandlesKey == observed'.op \in {"key", "pasted_key"}

\* C16 as stated: in captured-input mode a character key, whatever the
\* character, is appended to the input buffer and changes neither the scroll
\* state nor the history.
C16_CapturedInputTakesEveryCharacter ==
    [][HandlesKey /\ observed'.arg \in Chars /\ active_command # <<>> =>
            /\ textarea' = Append(textarea, observed'.arg)
            /\ scroll_position' = scroll_position
            /\ entries' = entries]_vars

\* The key the pump makes of a pasted character.
PastedKey(ch) == Key(IF ch \in {"\n", "\r"} THEN "ShiftEnter" ELSE ch)

\* What C17 says of the translation and of submits: a paste produces one key
\* event per character, in order, a newline as Shift+Enter; and handling such a
\* key event, in any state of the widget, appends nothing to the history and
\* raises no Core event.
PasteNeverSubmits ==
    /\ [][observed'.op = "paste" =>
            /\ Len(app_event_rx') = Len(observed'.arg)
            /\ \A i \in 1..Len(observed'.arg) :
                    app_event_rx'[i] = PastedKey(observed'.arg[i])]_vars
    /\ [][observed'.op = "pasted_key" =>
            /\ entries' = entries
            /\ CopiesIn(AppEvent("Core"), send_tasks') = CopiesIn(AppEvent("Core"), send_tasks)]_vars

\* C17 as stated: the above, and handling the key event of a pasted newline
\* inserts a line break.
C17_PasteInsertsLineBreaks ==
    /\ PasteNeverSubmits
    /\ [][observed'.op = "pasted_key" /\ observed'.arg = "ShiftEnter" =>
            textarea' = Append(textarea, "\n")]_vars

\* C17, amended: the line break is inserted unless the widget is processing a
\* request, when the key event is ignored like every other.
C17_PasteInsertsLineBreaksUnlessProcessing ==
    /\ PasteNeverSubmits
    /\ [][observed'.op = "pasted_key" /\ observed'.arg = "ShiftEnter" =>
            textarea' = IF ai_processing THEN textarea ELSE Append(textarea, "\n")]_vars

\* Both key events of the paste "a", newline were handled, in that order: the
\* buffer holds the character and a line break, nothing was submitted.
C17_Witness ==
    /\ observed.op = "pasted_key"
    /\ observed.arg = "ShiftEnter"
    /\ app_event_rx = <<>>
    /\ textarea = <<"a", "\n">>
    /\ entries = <<>>
    /\ send_tasks = EmptyBag

\* A step that handles Enter while the palette is open.
EnterOnPalette ==
    /\ observed'.op = "key"
    /\ observed'.arg = "Enter"
    /\ command_popup # <<>>
    /\ selected_command(command_popup[1]) # <<>>

\* What C20 says Enter on the palette does with the selected command: a command
\* that requires input is typed into the buffer and captures the input, nothing
\* is executed; any other command is executed once (clear empties the history,
\* fullscreen raises one ToggleFullscreen and flips the widget's flag) and the
\* buffer is emptied; the palette closes in both cases.
EnterRunsSelected ==
    LET cmd == selected_command(command_popup[1])[1]
    IN  /\ command_popup' = <<>>
        /\ IF requires_input(cmd)
           THEN /\ textarea' = COMMAND_PREFIX \o command(cmd) \o <<" ">>
                /\ active_command' = <<cmd>>
                /\ entries' = entries
                /\ send_tasks' = send_tasks
                /\ fullscreen_mode' = fullscreen_mode
           ELSE /\ textarea' = <<>>
                /\ active_command' = active_command
                /\ cmd = "Clear" =>
                        /\ entries' = <<>>
                        /\ send_tasks' = send_tasks
                        /\ fullscreen_mode' = fullscreen_mode
                /\ cmd = "Fullscreen" =>
                        /\ entries' = entries
                        /\ send_tasks' = send_tasks (+) SetToBag({AppEvent("ToggleFullscreen")})
                        /\ fullscreen_mode' = [fullscreen_mode EXCEPT !.widget = ~@]

\* C20 as stated: Enter on the open palette runs the selected command as above.
C20_EnterOnPaletteRunsSelected == [][EnterOnPalette => EnterRunsSelected]_vars

\* Outside processing, Enter on the open palette does run the selected command.
EnterOnPaletteRunsSelectedUnlessProcessing ==
    [][EnterOnPalette /\ ~ai_processing => EnterRunsSelected]_vars

----------------------------------------------------------------------------
(* Claims about the command palette                                        *)

\* The names of the commands, in the order of the list.
CommandNames == <<<<"c", "l", "e", "a", "r">>, <<"a", "s", "k", "-", "a", "i">>,
                  <<"f", "u", "l", "l", "s", "c", "r", "e", "e", "n">>>>

\* f is a prefix of name when letters are compared without regard to case.
PrefixIgnoringCase(f, name) ==
    /\ Len(f) <= Len(name)
    /\ \A i \in 1..Len(f) : LowerChar(f[i]) = LowerChar(name[i])

\* The commands whose names f is a prefix of, in the order of the list.
Matching(f) ==
    Retain(built_in_slash_commands, 1,
           {i \in 1..Len(CommandNames) : PrefixIgnoringCase(f, CommandNames[i])})

\* C18: whatever the filter text, the filtered list of the palette is the
\* commands of [clear, ask-ai, fullscreen] whose names start with it, compared
\* without regard to case, in the order of that list, all of them for the empty
\* filter; the input "/cl" leaves [clear] and "/z" leaves nothing.
C18_FilteredIsPrefixMatches ==
    command_popup # <<>> =>
        /\ command_popup[1].filtered_commands = Matching(command_popup[1].filter)
        /\ command_popup[1].filter = <<>> =>
                command_popup[1].filtered_commands = built_in_slash_commands
        /\ observed.op = "update_filter" /\ observed.arg = <<"/", "c", "l">> =>
                command_popup[1].filtered_commands = <<"Clear">>
        /\ observed.op = "update_filter" /\ observed.arg = <<"/", "z">> =>
                command_popup[1].filtered_commands = <<>>

\* The input "/Cl" was filtered for: the filter is "Cl" and clear is the one match.
C18_Witness ==
    /\ command_popup # <<>>
    /\ observed.op = "update_filter"
    /\ observed.arg = <<"/", "C", "l">>
    /\ command_popup[1].filter = <<"C", "l">>
    /\ command_popup[1].filtered_commands = <<"Clear">>

\* C19: after every operation of the palette the selection is none exactly when
\* the filtered list is empty and otherwise an index of the list; and a change
\* of the filter leaves the selection at the index it was, 0 if there was none,
\* clamped to the last index of the new list.
C19_SelectionWithinFiltered ==
    /\ [](command_popup # <<>> =>
            LET popup == command_popup[1]
            IN  /\ popup.selected_index = <<>> <=> popup.filtered_commands = <<>>
                /\ popup.selected_index # <<>> =>
                        /\ 0 <= popup.selected_index[1]
                        /\ popup.selected_index[1] < Len(popup.filtered_commands))
    /\ [][observed'.op = "update_filter" /\ command_popup'[1].filtered_commands # <<>> =>
            LET previous == IF command_popup[1].selected_index = <<>> THEN 0
                            ELSE command_popup[1].selected_index[1]
            IN  command_popup'[1].selected_index =
                    <<Min(previous, Len(command_popup'[1].filtered_commands) - 1)>>]_vars

\* A change of the filter clamped the selection: it was on the third command,
\* one command is left and it is selected.
C19_Witness ==
    /\ command_popup # <<>>
    /\ observed.op = "update_filter"
    /\ observed.from = <<2>>
    /\ Len(command_popup[1].filtered_commands) = 1
    /\ command_popup[1].selected_index = <<0>>

----------------------------------------------------------------------------
(* Claims about the notifications                                          *)

IsSuffix(s, t) == Len(s) <= Len(t) /\ SubSeq(t, Len(t) - Len(s) + 1, Len(t)) = s

\* The last n elements of a sequence (all of it if it is shorter).
LastN(s, n) == IF Len(s) <= n THEN s ELSE SubSeq(s, Len(s) - n + 1, Len(s))

\* C21: ToasterState holds at most 3 notifications in every reachable state;
\* adding one when 3 are present removes the oldest, and the notifications
\* retained are the most recently added ones in insertion order: after an add
\* they are the last three of the previous ones followed by the new one, and at
\* any time they are a run of the toasts added, in the order they were added,
\* ending with the last toast added unless a tick removed it.
C21_AtMostThreeMostRecent ==
    /\ Len(toasts) <= MAX_TOASTS
    /\ IsSuffix(toasts, ToastsAdded)
    /\ observed.op = "add_toast" =>
            /\ toasts = LastN(Append(observed.from, ToastsAdded[Len(ToastsAdded)]), MAX_TOASTS)
            /\ Len(observed.from) = MAX_TOASTS =>
                    toasts = Tail(observed.from) \o <<ToastsAdded[Len(ToastsAdded)]>>

\* C21 witness: a fourth toast was added to three different ones; the oldest is
\* gone and the three newest remain in insertion order.
C21_Witness ==
    /\ observed.op = "add_toast"
    /\ Len(observed.from) = MAX_TOASTS
    /\ Len(ToastsAdded) = 4
    /\ toasts = SubSeq(ToastsAdded, 2, 4)
    /\ toasts[1] # toasts[2] /\ toasts[2] # toasts[3] /\ ToastsAdded[1] # toasts[1]

\* Toast number i of the toasts added is held.
Present(i) == \E j \in 1..Len(toasts) : toasts[j] = ToastsAdded[i]

----------------------------------------------------------------------------
(* Claims about the main loop: mouse capture and rendering                 *)

\* The main loop takes an event with the key k from its channel.
LoopHandlesKey(k) ==
    /\ received' = Append(received, Key(k))
    /\ app_event_rx # <<>>
    /\ Head(app_event_rx) = Key(k)

\* How many MouseCaptureChanged events carrying b wait in tasks spawned by send.
Announced(tasks, b) == CopiesIn(MouseCaptureChanged(b), tasks)

\* C23: when the mouse-capture toggle fails, the main loop keeps running, one
\* error notification is added, the MouseCapture active flag and the widget's
\* displayed capture flag are unchanged and no MouseCaptureChanged event is
\* sent; when it succeeds the active flag is inverted and exactly one
\* MouseCaptureChanged carrying the new value is sent.
C23_ToggleFailureIsNotFatal ==
    [][LoopHandlesKey("CtrlY") =>
        IF observed'.ok
        THEN /\ mouse_capture' = ~mouse_capture
             /\ Announced(send_tasks', mouse_capture') =
                    Announced(send_tasks, mouse_capture') + 1
             /\ Announced(send_tasks', ~mouse_capture') =
                    Announced(send_tasks, ~mouse_capture')
             /\ toasts' = toasts
        ELSE /\ loop_pc' = "loop"
             /\ Len(toasts') = Min(Len(toasts) + 1, MAX_TOASTS)
             /\ toasts'[Len(toasts')] = Toast(ERROR_TOGGLE_MOUSE_MODE, "Error", now)
             /\ IsSuffix(SubSeq(toasts', 1, Len(toasts') - 1), toasts)
             /\ mouse_capture' = mouse_capture
             /\ mouse_capture_active' = mouse_capture_active
             /\ \A b \in BOOLEAN : Announced(send_tasks', b) = Announced(send_tasks, b)
             /\ blocking_rx' = blocking_rx
             /\ app_event_rx' = Tail(app_event_rx)]_vars

\* C23 witness: a toggle succeeded and its change is displayed, then a second
\* toggle failed: the loop runs, capture is still off, one error toast is shown.
C23_Witness ==
    /\ observed = [op |-> "toggle", ok |-> FALSE]
    /\ loop_pc = "loop"
    /\ ~mouse_capture
    /\ ~mouse_capture_active
    /\ Len(toasts) = 1
    /\ Len(received) >= 4

\* The Redraw events among the events the main loop has dequeued.
RedrawsDequeued == Len(SelectSeq(received, LAMBDA ev : ev = Redraw))

\* C25: the main loop performs exactly one render pass (one call of
\* terminal.draw) for each Redraw event it dequeues and none at any other time:
\* the passes made are as many as the Redraw events dequeued and the terminal
\* changes only in a step that dequeues a Redraw; and every render reflects all
\* state mutations applied before it: what a pass paints is the input, the
\* popup, the history, the layout mode, the capture flag and the toasts as they
\* are when it is made.
C25_OneRenderPerRedraw ==
    /\ [](frame.draws = RedrawsDequeued)
    /\ [][frame' # frame =>
            /\ received' = Append(received, Redraw)
            /\ frame'.draws = frame.draws + 1
            /\ observed'.ok =>
                    /\ frame'.shown.textarea = textarea'
                    /\ frame'.shown.command_popup = command_popup'
                    /\ frame'.shown.entries = entries'
                    /\ frame'.shown.fullscreen = fullscreen_mode'.app
                    /\ frame'.shown.mouse_capture_active = mouse_capture_active'
                    /\ frame'.shown.toasts = toasts']_vars

\* C25 witness: after the first frame a character was typed and a toggle failed,
\* and the one render pass that followed painted both changes.
C25_Witness ==
    /\ Len(received) = 4
    /\ received[1] = Redraw
    /\ received[2].type = "Key"
    /\ received[3].type = "Key"
    /\ received[4] = Redraw
    /\ frame.draws = 2
    /\ frame.shown.textarea = <<"a">>
    /\ Len(frame.shown.toasts) = 1
    /\ loop_pc = "loop"

----------------------------------------------------------------------------
(* Claims about submitting                                                 *)

\* The input is blank: the buffer is empty or whitespace only or, in
\* captured-input mode, nothing but whitespace follows the command prefix.
BlankInput ==
    IF active_command = <<>> THEN \A i \in 1..Len(textarea) : textarea[i] \in Whitespace
    ELSE LET prefix == CommandLine(active_command[1])
         IN  /\ Len(textarea) >= Len(prefix)
             /\ SubSeq(textarea, 1, Len(prefix)) = prefix
             /\ \A i \in Len(prefix) + 1..Len(textarea) : textarea[i] \in Whitespace

\* The events of these types among the events a handler sent.
SentOfTypes(w, types) == SelectSeq(w.out, LAMBDA ev : ev.type \in types)

\* C24: submitting blank input (Enter when the input buffer is empty or only
\* whitespace) is ignored, in normal mode and in captured-input mode: no entry
\* is appended to the history, no Core or CoreAI event is sent, no agent task
\* is started and no error notification is raised, neither by an Error event
\* nor by a toast.
C24_BlankSubmitIsIgnored ==
    /\ [](BlankInput =>
            LET w == handle_key_event(Widget, "Enter")
            IN  /\ w.entries = entries
                /\ SentOfTypes(w, {"Core", "CoreAI", "Error", "AiProcessingComplete"}) = <<>>
                /\ w.spawned = 0)
    /\ [][HandlesKey /\ observed'.arg = "Enter" /\ BlankInput =>
            /\ entries' = entries
            /\ \A type \in {"Core", "CoreAI"} :
                    CopiesIn(AppEvent(type), send_tasks') <= CopiesIn(AppEvent(type), send_tasks)
            /\ agent_tasks' = agent_tasks
            /\ toasts' = toasts]_vars

\* C24 witness: Enter was pressed on a buffer holding a line break only; the
\* history is still empty, nothing is being processed and no event waits.
C24_Witness ==
    /\ observed.op = "key"
    /\ observed.arg = "Enter"
    /\ textarea = <<"\n">>
    /\ entries = <<>>
    /\ ~ai_processing
    /\ send_tasks = EmptyBag
    /\ agent_tasks = 0

----------------------------------------------------------------------------
(* Claims about the debounce timer                                         *)

\* C26: at most one debounce timer of a ScrollEventHelper is pending at any
\* time, for every interleaving of scroll_up/scroll_down calls with a running
\* timer thread; a new timer is started only by the caller whose
\* compare-and-set changes timer_scheduled from false to true, and a timer is
\* pending exactly while the flag is set.
C26_AtMostOneTimerPending ==
    /\ [](timer_threads <= 1)
    /\ [](timer_scheduled <=> timer_threads = 1)
    /\ [][timer_threads' > timer_threads =>
            /\ pump_pc = "sched"
            /\ ~timer_scheduled
            /\ timer_scheduled']_vars

\* C26 witness: a tick arrives while the timer of an earlier tick has its event
\* sent but has not yet cleared the flag; the caller's compare-and-set is about
\* to fail and one timer is pending.
C26_Witness ==
    /\ pump_pc = "sched"
    /\ timer_pc = "clear"
    /\ timer_scheduled
    /\ timer_threads = 1
    /\ raw_count >= 2

----------------------------------------------------------------------------
(* Claims about the ways out of App::run                                   *)

\* C27: on every path by which App::run leaves the main loop or returns
\* (ExitRequest, a failed draw, a failed terminal restoration), the shutdown
\* flag is eventually set and the input pump eventually terminates, once the
\* flag is set within one poll interval.
C27_EveryExitStopsThePump ==
    /\ (loop_pc \in {"exited", "failed"}) ~> (shutdown_flag /\ pump_pc = "done")
    /\ shutdown_flag ~> (pump_pc = "done")

\* What holds: once the flag is set the pump ends with its current poll, and the
\* flag is set on the path on which the loop ends with ExitRequest and the
\* restoration succeeds.
PumpStopsAfterRestoredExit ==
    /\ shutdown_flag ~> (pump_pc = "done")
    /\ (loop_pc = "restored") ~> (shutdown_flag /\ pump_pc = "done")

----------------------------------------------------------------------------
(* Claims about scrolling up and paging                                    *)

\* The number of rows a step of the history scrolls up by, 0 if it is not a
\* scroll-up step.
ScrollUpStep(obs) ==
    CASE obs.op = "Up" -> 1
      [] obs.op = "scroll" /\ obs.arg < 0 -> -obs.arg
      [] OTHER -> 0

\* C28: scroll-up by d >= 1 from PINNED yields the explicit offset
\* max(0, max(0, total_rows - viewport_height) - d), and from an explicit
\* offset o yields max(0, o - d); scroll-up never yields PINNED and never a
\* negative offset.
C28_ScrollUpFromPinnedOrOffset ==
    /\ [][ScrollUpStep(observed') > 0 =>
            LET d == ScrollUpStep(observed')
            IN  scroll_position' =
                    IF scroll_position = USIZE_MAX
                    THEN Max(0, Max(0, num_rendered_lines - last_viewport_height) - d)
                    ELSE Max(0, scroll_position - d)]_vars
    /\ [](ScrollUpStep(observed) > 0 =>
            /\ scroll_position # USIZE_MAX
            /\ scroll_position >= 0)

\* C28 witness: a two-row scroll up from the pinned state of a history that
\* is longer than its viewport ended at an offset above 0.
C28_Witness ==
    /\ observed.op = "scroll"
    /\ observed.arg = -2
    /\ observed.from = USIZE_MAX
    /\ last_viewport_height > 0
    /\ num_rendered_lines - last_viewport_height > 2
    /\ scroll_position = num_rendered_lines - last_viewport_height - 2

\* C29: page-up and page-down are the same transitions as scroll-up and
\* scroll-down with step equal to the viewport height: for every scroll
\* state, total_rows and cached viewport height (0 included),
\* scroll_page_up gives the same state as scroll_up(viewport_height) and
\* scroll_page_down the same state as scroll_down(viewport_height).
C29_PageIsScrollByViewport ==
    /\ scroll_page_up(Widget) = scroll_up(Widget, last_viewport_height)
    /\ scroll_page_down(Widget) = scroll_down(Widget, last_viewport_height)

\* C29 as the code has it: the equalities hold for a cached viewport height
\* of at least 1. With a cached viewport height of 0 a page is one row:
\* page-down is scroll-down by 1, and page-up moves one row up from the
\* explicit offset, or from max(0, total_rows - 1) when pinned.
C29_PageIsScrollByViewportAtLeastOne ==
    /\ last_viewport_height >= 1 =>
            /\ scroll_page_up(Widget) = scroll_up(Widget, last_viewport_height)
            /\ scroll_page_down(Widget) = scroll_down(Widget, last_viewport_height)
    /\ last_viewport_height = 0 =>
            /\ scroll_page_down(Widget) = scroll_down(Widget, 1)
            /\ scroll_page_up(Widget) =
                    [Widget EXCEPT !.scroll_position =
                        Max(0, (IF scroll_position = USIZE_MAX
                                THEN Max(0, num_rendered_lines - 1)
                                ELSE scroll_position) - 1)]

\* C29 witness: a page-up from the pinned state of a history three or more
\* rows longer than its viewport of two or more rows moved to an offset
\* above 0, one viewport above the last offset.
C29_Witness ==
    /\ observed.op = "PageUp"
    /\ observed.from = USIZE_MAX
    /\ last_viewport_height >= 2
    /\ scroll_position = num_rendered_lines - 2 * last_viewport_height
    /\ scroll_position > 0

----------------------------------------------------------------------------
(* Claims about the row count of an entry                                  *)

HeightObserved == "rows" \in DOMAIN observed /\ observed.op = "height"

\* The rows of one line of display width L at width W, as stated: 1 for a
\* line that fits, min(ceil(L / W), 100) for a longer one.
StatedLineRows(L, W) ==
    IF L <= W THEN 1
    ELSE LET ceil == IF L % W = 0 THEN L \div W ELSE (L \div W) + 1
         IN  IF ceil < 100 THEN ceil ELSE 100

\* The sum of the stated rows of the lines at positions lo..hi.
RECURSIVE StatedSum(_, _, _, _)
StatedSum(ls, lo, hi, W) ==
    IF lo > hi THEN 0
    ELSE IF lo = hi THEN StatedLineRows(ls[lo], W)
    ELSE LET mid == (lo + hi) \div 2
         IN  StatedSum(ls, lo, mid, W) + StatedSum(ls, mid + 1, hi, W)

\* The row count at a width W >= 1 of an entry of a kind with the lines ls,
\* as stated.
StatedRows(kind, ls, W) ==
    IF kind = "AiWorking" THEN 2
    ELSE IF Len(ls) <= 500
    THEN LET sum == StatedSum(ls, 1, Len(ls), W)
         IN  IF sum < 1 THEN 1 ELSE IF sum > 1000 THEN 1000 ELSE sum
    ELSE IF 2 * Len(ls) < 5000 THEN 2 * Len(ls) ELSE 5000

\* C30: at a width W >= 1 the row count of a message with at most 500 lines
\* is the sum over its lines of 1 for a line of width <= W and
\* min(ceil(L / W), 100) for a line of width L > W, bounded to 1..1000; of
\* a message with more than 500 lines it is min(2 * line_count, 5000)
\* whatever W is; the working indicator counts 2 rows; so every entry's row
\* count is within 1..5000.
C30_RowCountOfAnEntry ==
    HeightObserved =>
        /\ observed.width >= 1 =>
                observed.rows = StatedRows(observed.kind, observed.lines, observed.width)
        /\ observed.kind = "AiWorking" => observed.rows = 2
        /\ observed.rows \in 1..5000

\* C30 witness: a message of eleven lines of width 1000 at width 1 was
\* counted: each line is held to 100 rows and the total to 1000.
C30_Witness ==
    /\ HeightObserved
    /\ observed.kind = "AgentMessage"
    /\ Len(observed.lines) = 11
    /\ \A i \in 1..11 : observed.lines[i] = 1000
    /\ observed.width = 1
    /\ observed.rows = 1000

----------------------------------------------------------------------------
(* Claims about the palette's selection and its opening                    *)

\* select_next and select_previous applied k times.
RECURSIVE NextTimes(_, _)
NextTimes(popup, k) == IF k = 0 THEN popup ELSE NextTimes(select_next(popup), k - 1)

RECURSIVE PreviousTimes(_, _)
PreviousTimes(popup, k) ==
    IF k = 0 THEN popup ELSE PreviousTimes(select_previous(popup), k - 1)

\* The palette with index i selected.
Selecting(popup, i) == [popup EXCEPT !.selected_index = <<i>>]

\* C31: over a non-empty filtered list of length n, select_next maps index i
\* to (i + 1) mod n and select_previous maps i to (i - 1) mod n, each undoes
\* the other, n applications of either return to the starting index, and
\* both leave a none selection unchanged.
C31_SelectionMovesCyclically ==
    /\ [](command_popup # <<>> =>
            LET popup == command_popup[1]
                n == Len(popup.filtered_commands)
            IN  IF popup.selected_index = <<>>
                THEN /\ select_next(popup) = popup
                     /\ select_previous(popup) = popup
                ELSE LET i == popup.selected_index[1]
                     IN  /\ n > 0
                         /\ select_next(popup) = Selecting(popup, (i + 1) % n)
                         /\ select_previous(popup) = Selecting(popup, (i + n - 1) % n)
                         /\ select_previous(select_next(popup)) = popup
                         /\ select_next(select_previous(popup)) = popup
                         /\ NextTimes(popup, n) = popup
                         /\ PreviousTimes(popup, n) = popup)
    /\ [][/\ observed'.op = "select_next" /\ command_popup[1].selected_index # <<>> =>
                command_popup'[1].selected_index =
                    <<(command_popup[1].selected_index[1] + 1)
                        % Len(command_popup[1].filtered_commands)>>
          /\ observed'.op = "select_previous" /\ command_popup[1].selected_index # <<>> =>
                command_popup'[1].selected_index =
                    <<(command_popup[1].selected_index[1]
                        + Len(command_popup[1].filtered_commands) - 1)
                        % Len(command_popup[1].filtered_commands)>>
          /\ observed'.op \in {"select_next", "select_previous"}
                /\ command_popup[1].selected_index = <<>> =>
                command_popup' = command_popup]_vars

\* C31 witness: select_previous on the first of three commands wrapped around
\* to the third.
C31_Witness ==
    /\ command_popup # <<>>
    /\ observed.op = "select_previous"
    /\ observed.from = <<0>>
    /\ Len(command_popup[1].filtered_commands) = 3
    /\ command_popup[1].selected_index = <<2>>

\* C32: in every reachable state of the chat widget in which the palette is
\* open, the input buffer begins with the trigger character "/", contains no
\* whitespace, captured-input mode is inactive and at least one command
\* matches the filter; the palette is closed as soon as the filtered list
\* becomes empty.
C32_OpenPaletteFollowsInput ==
    command_popup # <<>> =>
        /\ starts_with(textarea, COMMAND_PREFIX)
        /\ \A i \in 1..Len(textarea) : textarea[i] \notin Whitespace
        /\ active_command = <<>>
        /\ command_popup[1].filtered_commands # <<>>
        /\ Matching(command_popup[1].filter) # <<>>

\* What holds of the open palette: captured-input mode is inactive and a
\* command matches the filter; and unless the AI is processing, the input
\* buffer begins with "/" and contains no space character.
OpenPaletteFollowsInputOutsideProcessing ==
    command_popup # <<>> =>
        /\ active_command = <<>>
        /\ command_popup[1].filtered_commands # <<>>
        /\ Matching(command_popup[1].filter) # <<>>
        /\ ~ai_processing =>
                /\ starts_with(textarea, COMMAND_PREFIX)
                /\ \A i \in 1..Len(textarea) : textarea[i] # " "

----------------------------------------------------------------------------
(* Claims about the scroll accumulator                                     *)

\* The sum of the deltas of the Scroll events of a sequence.
RECURSIVE SumOfDeltas(_)
SumOfDeltas(events) ==
    IF events = <<>> THEN 0 ELSE Head(events).delta + SumOfDeltas(Tail(events))

\* The signed sum of all ticks received so far.
RECURSIVE SumOfTicks(_)
SumOfTicks(bs) == IF bs = <<>> THEN 0 ELSE Sum(Head(bs)) + SumOfTicks(Tail(bs))

\* The value the timer thread has taken out of the accumulator and not yet
\* sent or dropped.
HeldByTimer == IF timer_pc = "swapped" THEN accumulated ELSE 0

\* C34: in every reachable state, for every interleaving of ticks with the
\* timer thread, the sum of the deltas of all Scroll events emitted so far
\* plus the current accumulator value equals the signed sum of all ticks
\* received so far.
C34_TicksAreConserved ==
    SumOfDeltas(sent.noctx) + scroll_delta = SumOfTicks(bursts)

\* C34 with the value in the timer thread's hands counted: the deltas
\* emitted, the accumulator and the value the timer thread has swapped out
\* and not yet sent add up to the signed sum of the ticks received.
C34_TicksAreConservedWithTimersValue ==
    SumOfDeltas(sent.noctx) + scroll_delta + HeldByTimer = SumOfTicks(bursts)

\* C34 witness: three ticks were received, a Scroll event was emitted for
\* some of them and the others are in the accumulator.
C34_Witness ==
    /\ SumOfTicks(bursts) = 3
    /\ sent.noctx # <<>>
    /\ scroll_delta # 0
    /\ timer_pc # "swapped"

\* C35: once ticks stop arriving the accumulator eventually becomes 0 with
\* its whole value emitted, for every interleaving; no nonzero accumulator is
\* left without a scheduled timer. Stated on the states: whenever the
\* accumulator is nonzero and the tick that made it so has finished its call
\* of schedule_notification, a timer is scheduled.
C35_NoAccumulatorWithoutTimer ==
    scroll_delta # 0 /\ pump_pc # "sched" => timer_scheduled

\* What holds instead: a nonzero accumulator without a scheduled timer is left
\* only by a tick that ran after the timer thread had read the accumulator
\* and before it had finished.
AccumulatorWithoutTimerOnlyAfterOverlap ==
    scroll_delta # 0 /\ pump_pc # "sched" /\ ~overlap => timer_pc = "sleep"

----------------------------------------------------------------------------
(* Claims about keys while the AI is processing                            *)

\* Keys dispatched to the chat widget.
KeysToWidget ==
    Chars \cup HistoryKeys \cup
    {"Enter", "ShiftEnter", "Backspace", "Esc", "Tab", "Up", "Down", "CtrlN"}

\* C38: while processing is true, handling any key event dispatched to the
\* chat widget leaves the history, the scroll state, the input buffer, the
\* palette and the captured-command state unchanged and sends no event.
C38_KeysIgnoredWhileProcessing ==
    /\ [](ai_processing =>
            \A k \in KeysToWidget :
                LET w == handle_key_event(Widget, k)
                IN  /\ w = Widget
                    /\ w.out = <<>>
                    /\ w.spawned = 0)
    /\ [][HandlesKey /\ ai_processing =>
            /\ UNCHANGED <<entries, cell_lines, line_count, scroll_position,
                           num_rendered_lines, last_viewport_height, cached_width,
                           textarea, saved_textarea_content, command_popup,
                           active_command, ai_processing, ai_working_start,
                           fullscreen_mode>>
            /\ send_tasks' = send_tasks
            /\ agent_tasks' = agent_tasks]_vars

\* C38 witness: Enter was handled while the AI is processing and the palette
\* is open with a command selected; the palette is still open and the history
\* holds the request and the indicator only.
C38_Witness ==
    /\ observed.op = "key"
    /\ observed.arg = "Enter"
    /\ ai_processing
    /\ command_popup # <<>>
    /\ entries = <<"UserMessage", "AiWorking">>

----------------------------------------------------------------------------
(* Claims about Scroll events and about the window of a render             *)

\* The rows a Scroll(d) event is stated to scroll by.
StatedScrollRows(d) ==
    LET size == IF d < 0 THEN -d ELSE d
    IN  IF size = 1 THEN 1 ELSE 2 * size

\* The history after a Scroll(d) event, as stated.
StatedScroll(w, d) ==
    IF d < 0 THEN scroll_up(w, StatedScrollRows(d))
    ELSE IF d > 0 THEN scroll_down(w, StatedScrollRows(d))
    ELSE w

\* C40: a Scroll(d) event is applied to the viewport as a scroll of d rows
\* when |d| = 1 and of 2*d rows when |d| >= 2 (up for negative d, down for
\* positive d), and Scroll(0) leaves the scroll state unchanged.
C40_ScrollEventIsMagnified ==
    /\ [](\A d \in -3..3 :
            /\ handle_scroll_event(Widget, d).scroll_position
                    = StatedScroll(Widget, d).scroll_position
            /\ handle_scroll_event(Widget, d).out = <<Redraw>>)
    /\ [][observed'.op = "scroll_event" =>
            /\ scroll_position' = StatedScroll(Widget, observed'.arg).scroll_position
            /\ observed'.arg = 0 => scroll_position' = scroll_position
            /\ UNCHANGED <<entries, line_count, num_rendered_lines, last_viewport_height,
                           cached_width>>]_vars

\* C40 witness: Scroll(-2) on the pinned view of a history three rows longer
\* than its viewport moved it to the top, where a scroll of two rows would
\* have left it on row 1.
C40_Witness ==
    /\ observed.op = "scroll_event"
    /\ observed.arg = -2
    /\ observed.from = USIZE_MAX
    /\ last_viewport_height > 0
    /\ num_rendered_lines - last_viewport_height = 3
    /\ scroll_position = 0

\* The position of a drawn row <<entry, row of the entry>> in the whole
\* transcript, by the line counts the render used.
TranscriptRow(counts, row) == SumSeq(SubSeq(counts, 1, row[1] - 1)) + row[2]

\* The rows drawn are rows of the transcript that follow one another, from the
\* row `first` on.
ConsecutiveFrom(rows, counts, first) ==
    \A k \in 1..Len(rows) :
        /\ rows[k][1] \in 1..Len(counts)
        /\ rows[k][2] \in 0..(counts[rows[k][1]] - 1)
        /\ TranscriptRow(counts, rows[k]) = first + k - 1

\* C39: in every render the resolved scroll offset lies in
\* 0..max(0, total_rows - viewport_height) whatever the stored scroll state
\* (PINNED, or an explicit offset made stale by a resize, a removal or a
\* clear), the rows drawn are consecutive entries in append order and total at
\* most viewport_height, and the scrollbar gets
\* content_length >= max(1, viewport_height) and
\* position <= content_length - viewport_height.
C39_RenderWindowIsInRange ==
    [][observed'.op = "render" =>
        \A layout \in {RenderLayout(Widget, observed'.arg)} :
        LET total_rows == layout.num_lines
            viewport_height == layout.viewport_height
            rows == observed'.drawn
        IN  layout.effective_width # 0 =>
              /\ num_rendered_lines' = total_rows
              /\ last_viewport_height' = viewport_height
              /\ layout.scroll_pos \in 0..Max(0, total_rows - viewport_height)
              /\ layout.scroll_pos <= Max(0, SumSeq(layout.counts) - viewport_height)
              /\ Len(rows) <= viewport_height
              /\ ConsecutiveFrom(rows, layout.counts, layout.scroll_pos)
              /\ layout.drawn =>
                    /\ Len(rows) > 0
                    /\ layout.scrollbar.content_length >= Max(1, viewport_height)
                    /\ layout.scrollbar.position \in
                            0..(layout.scrollbar.content_length - viewport_height)
                    /\ layout.scrollbar.position = layout.scroll_pos]_vars

\* C39 witness: a render drew rows although the stored offset was an explicit
\* one beyond the largest offset of the rendered transcript.
C39_Witness ==
    /\ observed.op = "render"
    /\ observed.from # USIZE_MAX
    /\ observed.from = scroll_position
    /\ scroll_position > saturating_sub(num_rendered_lines, last_viewport_height)
    /\ num_rendered_lines > last_viewport_height
    /\ Len(observed.drawn) = last_viewport_height
    /\ last_viewport_height > 0

----------------------------------------------------------------------------
(* Claims about what is on the screen once the loop has nothing to do      *)

\* The main loop waits in select! and no event is on its way to it: no task
\* spawned by send is pending and the channel is empty.
LoopSettled ==
    /\ loop_pc = "loop"
    /\ send_tasks = EmptyBag
    /\ app_event_rx = <<>>
    /\ frame.draws > 0

\* The toasts on the screen are toasts the ToasterState holds.
PaintedToastsAreHeld ==
    \A i \in 1..Len(frame.shown.toasts) :
        \E j \in 1..Len(toasts) : toasts[j] = frame.shown.toasts[i]

\* C36: after the periodic tick removes the last expired notification, a render
\* eventually happens in which that notification is no longer drawn, even when
\* no other event arrives; a notification is never left painted on screen
\* after it has been removed from ToasterState. As a property of finite runs:
\* when the loop has nothing left to process, no toast is on the screen that
\* the ToasterState does not hold.
C36_RemovedToastIsNotLeftPainted ==
    LoopSettled => PaintedToastsAreHeld

\* With the last toast removed and no animation running, a tick asks for no
\* redraw: the frame with the removed toast stays until another event comes.
TickAfterLastToastAsksForNoRedraw ==
    [][LoopTick /\ toasts' = <<>> /\ ~ai_working_start =>
            /\ send_tasks' = send_tasks
            /\ app_event_rx' = app_event_rx
            /\ frame' = frame]_vars

\* The MouseCaptureChanged events the main loop has dequeued.
CaptureAnnouncements ==
    SelectSeq(received, LAMBDA ev : ev.type = "MouseCaptureChanged")

\* The announcements arrived in the order the toggles sent them: capture is on
\* at the start, so the first carries false, the second true, and so on.
AnnouncementsInSendingOrder ==
    \A k \in 1..Len(CaptureAnnouncements) :
        CaptureAnnouncements[k].is_active = (k % 2 = 0)

\* C37: once all pending events have been processed, the chat widget's
\* displayed mouse-capture flag equals MouseCapture.is_active, for every
\* sequence of Ctrl+Y toggles, including several toggles whose
\* MouseCaptureChanged events are in flight at the same time.
C37_DisplayedCaptureIsActualCapture ==
    LoopSettled => mouse_capture_active = mouse_capture

\* The displayed flag is the actual one whenever the announcements were
\* delivered in the order they were sent.
DisplayedCaptureIsActualWhenInOrder ==
    LoopSettled /\ AnnouncementsInSendingOrder => mouse_capture_active = mouse_capture

----------------------------------------------------------------------------
(* Claims about redraw requests                                            *)

\* What the application and the widget hold of what a render pass paints.
StateToShow == Painted(Widget, fullscreen_mode.app, mouse_capture_active, toasts)

\* The frame on the terminal was not drawn from the state as it is now: no
\* frame was drawn yet, or the input, the popup, the entries, the scroll
\* position, the layout mode, the capture flag or the toasts have changed
\* since.
Stale ==
    \/ frame.draws = 0
    \/ [frame.shown EXCEPT !.history = <<>>] # StateToShow

\* A request to redraw is on its way to the main loop whenever the frame is
\* stale.
RedrawRequestedWhenStale ==
    loop_pc = "loop" /\ Stale => PendingRedraws > 0

\* C33 (as stated): every event whose handling changes widget or application
\* state (a key that edits the input, moves the palette selection or scrolls;
\* Scroll; CoreAI; AiProcessingComplete; MouseCaptureChanged; ToggleFullscreen;
\* Error) is followed by a Redraw request, so that under fair delivery a render
\* showing the new state eventually happens.
C33_StateChangeIsRendered ==
    /\ []RedrawRequestedWhenStale
    /\ Stale ~> ~Stale

\* C33 (amended): every such event is followed by a Redraw request, so that
\* under fair delivery a render showing the new state eventually happens
\* unless the main loop ends first (ExitRequest taken, or a draw failed).
C33_StateChangeIsRenderedWhileLoopRuns ==
    /\ []RedrawRequestedWhenStale
    /\ Stale ~> (~Stale \/ loop_pc # "loop")

\* C33 witness: the palette ran /fullscreen, ToggleFullscreen was handled and
\* the frame on the terminal is drawn in fullscreen mode from the state as it
\* is.
C33_Witness ==
    /\ loop_pc = "loop"
    /\ fullscreen_mode.app
    /\ frame.draws > 1
    /\ frame.shown.fullscreen
    /\ ~Stale

====
